---- MODULE Spec2Model ----
(***************************************************************************)
(* USTHB Student Portal backend: the socket gateway (presence registry,    *)
(* rooms, relayed client events), the announcement / message notification  *)
(* fan-out and the composite-grade computation.                            *)
(***************************************************************************)
EXTENDS Integers, Sequences, FiniteSets, TLC

(***************************************************************************)
(* Bounds                                                                  *)
(***************************************************************************)
\* number of socket ids the gateway hands out (each id is used once)
MaxSockets == 2
\* number of HTTP requests served in one behaviour
MaxRequests == 2
\* longest enrolledStudents array a course update carries
MaxRoster == 2
MaxAssessments == 2
MaxInputs == 3

\* ids
SocketIds == 1..MaxSockets
Students == {"u1", "u2", "u3"}
Professors == {"p1", "p2"}
Admins == {"a1"}
Staff == Professors \cup Admins
UserIds == Students \cup Staff
\* find() result order
UserOrder == <<"u1", "u2", "u3", "p1", "p2", "a1">>
\* an id carried by a well-signed token that has no directory record
GhostId == "gone"
NoUser == "nobody"
NoSocket == 0
CourseIds == {"c1"}
\* a well-formed course id that names no course
MissingCourse == "cX"
Absent == "absent"
CourseArgs == {"c1"}
ClubArgs == {"k1"}

\* handshake.auth.token: absent, rejected by jwt.verify (bad signature or
\* expired), or well signed for decoded.id
Tokens == {"none", "bad", "u1", "p1", GhostId}
\* receiverId values clients send
Receivers == {"u1", "p1"}

VARIABLES
    users,        \* User collection: id -> document
    sockets,      \* per connection: position of the connection handler, transport, token, socket.userId
    activeUsers,  \* the module-level Map userId -> socket.id
    rooms,        \* adapter: socket id -> set of rooms it is in
    announced,    \* sockets for which 'user_online' has been broadcast
    listeners,    \* sockets on which the handler registered its event listeners
    lastEmit,     \* the last event handed to io.emit / io.to(room).emit
    courses,      \* Course collection: id -> document, or NullCourse once deleted
    notifications,\* Notification collection, in insertion order
    messages,     \* Message collection, in insertion order
    announcements,\* Announcement collection, in insertion order
    ann,          \* the POST /api/announcements request in flight
    served,       \* HTTP requests answered so far
    lastOp,       \* what the last finished handler did: response, store writes, emits
    grade,        \* the Grade document of one (student, course, semester, academicYear)
    calc,         \* a run of the composite computation on its own: input list, rounding, results
    exams,        \* Exam collection, in insertion order
    pending,      \* HTTP handlers suspended at an await: slot -> what the handler holds
    store         \* further collections and fields: Grade documents, Attendance documents, User.enrolledCourses

dbVars == <<courses, notifications, messages, announcements, ann, served, grade, calc, exams, pending, store>>
sockVars == <<sockets, activeUsers, rooms, announced, listeners, lastEmit>>
vars == <<users, sockets, activeUsers, rooms, announced, listeners, lastEmit,
          courses, notifications, messages, announcements, ann, served, lastOp, grade, calc, exams,
          pending, store>>

(***************************************************************************)
(* Directory                                                               *)
(***************************************************************************)
RoleOf(u) == IF u \in Professors THEN "professor"
             ELSE IF u \in Admins THEN "admin" ELSE "student"

DefaultUsers ==
    [u \in UserIds |->
        [role |-> RoleOf(u),
         faculty |-> IF u \in {"u1", "u2", "p1", "a1"} THEN "CS" ELSE "Math",
         department |-> IF u \in {"u1", "u3", "p1", "a1"} THEN "D1" ELSE "D2",
         level |-> IF u \in {"u1", "u3"} THEN "L3" ELSE IF u = "u2" THEN "L2" ELSE Absent,
         isActive |-> TRUE]]

\* User.findById(id): the document, or null
NullDoc == [role |-> "null"]
findById(id) == IF id \in DOMAIN users THEN users[id] ELSE NullDoc

(***************************************************************************)
(* Rooms                                                                   *)
(***************************************************************************)
\* a room name `prefix_id` is held as <<prefix, id>>: no prefix contains an
\* underscore, so the name and the pair determine each other
\* io.emit: every connected socket
AllRoom == <<"all", "*">>
UserRoom(u) == <<"user", u>>
StudentRoom(u) == <<"student", u>>
CourseRoom(c) == <<"course", c>>
ClubRoom(k) == <<"club", k>>

\* sockets currently in a room (io.to(room))
InRoom(r) == {s \in SocketIds : r \in rooms[s]}
\* all connected sockets of the namespace (io.emit)
Connected == {s \in SocketIds : sockets[s].connected}

NoEmit == [event |-> "none"]

\* HTTP requests running side by side: each slot holds one handler, idle or
\* suspended at an await with what it has read so far
MaxInFlight == 2
Slots == 1..MaxInFlight
Idle == [pc |-> "idle"]
NoPending == [r \in Slots |-> Idle]

\* the collections of store, empty
NoStore == [grades |-> <<>>, attendance |-> <<>>,
            enrolledCourses |-> [u \in UserIds |-> <<>>]]

\* summary of a finished handler: op and path name the handler, status is the
\* HTTP status sent (0: none), rule / course the targeting it was given,
\* courseMissing whether the recipient resolution found no such course,
\* roster the enrolledStudents it read, recipients the resolved users, writes the number of calls to the
\* Notification store, docs the documents handed to it, persisted the documents
\* it stored, live the rooms (AllRoom: io.emit) an event was emitted to, online
\* the users that had a live registered connection while it ran
NoOp == [op |-> "none", path |-> "none", from |-> NoUser, to |-> NoUser, status |-> 0,
         rule |-> <<>>, course |-> Absent, courseMissing |-> FALSE, roster |-> <<>>,
         recipients |-> <<>>,
         writes |-> 0, docs |-> <<>>, persisted |-> <<>>, live |-> {}, online |-> {},
         returned |-> <<>>, created |-> FALSE]

(***************************************************************************)
(* Socket gateway                                                          *)
(***************************************************************************)
NewSocket == [pc |-> "idle", connected |-> FALSE, token |-> "none", userId |-> NoUser]

\* io.isUserOnline / io.getOnlineUsers
isUserOnline(u) == activeUsers[u] # NoSocket
getOnlineUsers == {u \in DOMAIN activeUsers : activeUsers[u] # NoSocket}

\* connection handler up to the first await: token check and jwt.verify
Connect(s, tok) ==
    /\ sockets[s].pc = "idle"
    /\ IF tok \in {"none", "bad"}
       THEN \* no token: disconnect, return; jwt.verify throws: catch, disconnect
            sockets' = [sockets EXCEPT ![s] = [pc |-> "failed", connected |-> FALSE,
                                               token |-> tok, userId |-> NoUser]]
       ELSE \* suspended at await User.findById(decoded.id)
            sockets' = [sockets EXCEPT ![s] = [pc |-> "lookup", connected |-> TRUE,
                                               token |-> tok, userId |-> NoUser]]
    /\ UNCHANGED <<users, activeUsers, rooms, announced, listeners, lastEmit, lastOp, dbVars>>

\* rooms joined after a successful lookup
AutoRooms(u, user) ==
    {UserRoom(u)} \cup (IF user.role = "student" THEN {StudentRoom(u)} ELSE {})

\* variant of FindByIdReturns that stores the socket under decoded.id before
\* the directory lookup has answered
FindByIdReturns_registerFirst(s, dbOk, joinTakes) ==
    /\ sockets[s].pc = "lookup"
    /\ LET id == sockets[s].token
           user == findById(id)
       IN IF ~dbOk \/ user = NullDoc
          THEN /\ sockets' = [sockets EXCEPT ![s].pc = "failed", ![s].connected = FALSE]
               /\ activeUsers' = [activeUsers EXCEPT ![id] = s]
               /\ UNCHANGED <<rooms, announced, listeners, lastEmit>>
          ELSE /\ sockets' = [sockets EXCEPT ![s].pc = "active", ![s].userId = id]
               /\ activeUsers' = [activeUsers EXCEPT ![id] = s]
               /\ rooms' = [rooms EXCEPT ![s] =
                               IF sockets[s].connected \/ joinTakes
                               THEN AutoRooms(id, user) ELSE {}]
               /\ announced' = announced \cup {s}
               /\ listeners' = listeners \cup {s}
               /\ lastEmit' = [event |-> "user_online", by |-> s, room |-> AllRoom,
                               userId |-> id, reached |-> Connected]
    /\ UNCHANGED <<users, lastOp, dbVars>>

\* the handler resumes after await User.findById: registration, or rejection
\* (dbOk = FALSE: the query rejects and the catch block runs).  joinTakes is
\* the library's treatment of socket.join on a socket that already closed.
FindByIdReturns(s, dbOk, joinTakes) ==
    /\ sockets[s].pc = "lookup"
    /\ LET id == sockets[s].token
           user == findById(id)
       IN IF ~dbOk \/ user = NullDoc
          THEN /\ sockets' = [sockets EXCEPT ![s].pc = "failed", ![s].connected = FALSE]
               /\ UNCHANGED <<activeUsers, rooms, announced, listeners, lastEmit>>
          ELSE /\ sockets' = [sockets EXCEPT ![s].pc = "active", ![s].userId = id]
               /\ activeUsers' = [activeUsers EXCEPT ![id] = s]
               /\ rooms' = [rooms EXCEPT ![s] =
                               IF sockets[s].connected \/ joinTakes
                               THEN AutoRooms(id, user) ELSE {}]
               /\ announced' = announced \cup {s}
               /\ listeners' = listeners \cup {s}
               /\ lastEmit' = [event |-> "user_online", by |-> s, room |-> AllRoom,
                               userId |-> id, reached |-> Connected]
    /\ UNCHANGED <<users, lastOp, dbVars>>

\* variant of TransportClose whose 'disconnect' listener leaves the Map alone
TransportClose_keepsEntry(s) ==
    /\ sockets[s].connected
    /\ rooms' = [rooms EXCEPT ![s] = {}]
    /\ IF s \in listeners
       THEN /\ sockets' = [sockets EXCEPT ![s].pc = "closed", ![s].connected = FALSE]
            /\ lastEmit' = [event |-> "user_offline", by |-> s, room |-> AllRoom,
                            userId |-> sockets[s].userId,
                            reached |-> Connected \ {s}]
            /\ UNCHANGED activeUsers
       ELSE /\ sockets' = [sockets EXCEPT ![s].connected = FALSE]
            /\ UNCHANGED <<activeUsers, lastEmit>>
    /\ UNCHANGED <<users, announced, listeners, lastOp, dbVars>>

\* the transport closes (client side or network).  The 'disconnect' listener
\* exists only once the handler has registered it.
TransportClose(s) ==
    /\ sockets[s].connected
    /\ rooms' = [rooms EXCEPT ![s] = {}]
    /\ IF s \in listeners
       THEN /\ sockets' = [sockets EXCEPT ![s].pc = "closed", ![s].connected = FALSE]
            /\ activeUsers' = [activeUsers EXCEPT ![sockets[s].userId] = NoSocket]
            /\ lastEmit' = [event |-> "user_offline", by |-> s, room |-> AllRoom,
                            userId |-> sockets[s].userId,
                            reached |-> Connected \ {s}]
       ELSE /\ sockets' = [sockets EXCEPT ![s].connected = FALSE]
            /\ UNCHANGED <<activeUsers, lastEmit>>
    /\ UNCHANGED <<users, announced, listeners, lastOp, dbVars>>

\* client events reach the listeners only on a socket whose handler registered
\* them and whose transport is open
Listening(s) == s \in listeners /\ sockets[s].connected

\* live registered connections of an identity
LiveConnections(u) == {s \in SocketIds : Listening(s) /\ sockets[s].userId = u}
OnlineNow == {u \in UserIds : LiveConnections(u) # {}}

\* variant of send_message that fills senderId from the client's data
send_message_senderFromData(s, receiverId) ==
    /\ Listening(s)
    /\ lastEmit' = [event |-> "receive_message", by |-> s, room |-> UserRoom(receiverId),
                    userId |-> receiverId, reached |-> InRoom(UserRoom(receiverId))]
    /\ UNCHANGED <<users, sockets, activeUsers, rooms, announced, listeners, lastOp, dbVars>>

\* 'send_message': relayed to the receiver's user room; receiverId is client data
send_message(s, receiverId) ==
    /\ Listening(s)
    /\ lastEmit' = [event |-> "receive_message", by |-> s, room |-> UserRoom(receiverId),
                    userId |-> sockets[s].userId, reached |-> InRoom(UserRoom(receiverId))]
    /\ UNCHANGED <<users, sockets, activeUsers, rooms, announced, listeners, lastOp, dbVars>>

\* 'typing' / 'stop_typing'
typing(s, receiverId, isTyping) ==
    /\ Listening(s)
    /\ lastEmit' = [event |-> "user_typing", by |-> s, room |-> UserRoom(receiverId),
                    userId |-> sockets[s].userId, isTyping |-> isTyping,
                    reached |-> InRoom(UserRoom(receiverId))]
    /\ UNCHANGED <<users, sockets, activeUsers, rooms, announced, listeners, lastOp, dbVars>>

\* socket.join(room) / socket.leave(room) on the socket's set of rooms
socket_join(joined, room) == joined \cup {room}
\* variant of socket_leave that leaves the set as it is
socket_leave_ignored(joined, room) == joined
socket_leave(joined, room) == joined \ {room}

\* 'join_course' / 'leave_course' / 'join_club' / 'leave_club'
join_course(s, courseId) ==
    /\ Listening(s)
    /\ rooms' = [rooms EXCEPT ![s] = socket_join(@, CourseRoom(courseId))]
    /\ UNCHANGED <<users, sockets, activeUsers, announced, listeners, lastEmit, lastOp, dbVars>>

\* variant of leave_course that takes the socket out of every room
leave_course_clears(s, courseId) ==
    /\ Listening(s)
    /\ rooms' = [rooms EXCEPT ![s] = {}]
    /\ UNCHANGED <<users, sockets, activeUsers, announced, listeners, lastEmit, lastOp, dbVars>>

leave_course(s, courseId) ==
    /\ Listening(s)
    /\ rooms' = [rooms EXCEPT ![s] = socket_leave(@, CourseRoom(courseId))]
    /\ UNCHANGED <<users, sockets, activeUsers, announced, listeners, lastEmit, lastOp, dbVars>>

\* variant of join_club that joins the room the client names, without a prefix
join_club_rawRoom(s, clubId) ==
    /\ Listening(s)
    /\ rooms' = [rooms EXCEPT ![s] = socket_join(@, UserRoom(clubId))]
    /\ UNCHANGED <<users, sockets, activeUsers, announced, listeners, lastEmit, lastOp, dbVars>>

join_club(s, clubId) ==
    /\ Listening(s)
    /\ rooms' = [rooms EXCEPT ![s] = socket_join(@, ClubRoom(clubId))]
    /\ UNCHANGED <<users, sockets, activeUsers, announced, listeners, lastEmit, lastOp, dbVars>>

leave_club(s, clubId) ==
    /\ Listening(s)
    /\ rooms' = [rooms EXCEPT ![s] = socket_leave(@, ClubRoom(clubId))]
    /\ UNCHANGED <<users, sockets, activeUsers, announced, listeners, lastEmit, lastOp, dbVars>>

\* io.emitToUser(userId, event, data)
emitToUser(u) ==
    /\ activeUsers[u] # NoSocket
    /\ lastEmit' = [event |-> "emitToUser", by |-> NoSocket, room |-> UserRoom(u),
                    userId |-> u, reached |-> InRoom(UserRoom(u))]
    /\ UNCHANGED <<users, sockets, activeUsers, rooms, announced, listeners, lastOp, dbVars>>

(***************************************************************************)
(* Collections                                                             *)
(***************************************************************************)
NullCourse == [professor |-> NoUser]
DefaultMaxStudents == 50
\* Course.findById(id): the document, or null
Course_findById(c) == IF c \in DOMAIN courses THEN courses[c] ELSE NullCourse

Range(q) == {q[i] : i \in 1..Len(q)}
RECURSIVE SeqsUpTo(_, _)
SeqsUpTo(S, n) ==
    IF n = 0 THEN {<<>>}
    ELSE LET shorter == SeqsUpTo(S, n - 1)
         IN shorter \cup {Append(q, x) : q \in {r \in shorter : Len(r) = n - 1}, x \in S}

\* User.find(filter): every document matching the filter, each once
\* (matching: the ids of the documents the filter accepts)
User_find(matching) == SelectSeq(UserOrder, LAMBDA u : u \in DOMAIN users /\ u \in matching)

\* Notification.create(doc): stored, or the store rejects
\* Notification.insertMany(docs): all stored, or the store rejects after
\* storing the first k documents (ordered insert)
StoredPrefix(docs, ok, k) == IF ok THEN docs ELSE SubSeq(docs, 1, k)

\* what createNotification / createBulkNotifications return: the stored
\* document(s), held as their number, or null from the catch block
NullResult == -1
createResult(docs, ok) == IF ok THEN Len(docs) ELSE NullResult

(***************************************************************************)
(* POST /api/announcements                                                 *)
(***************************************************************************)
Audiences == {"All", "Faculty", "Department", "Course", "Level"}
\* one request is followed through the handler
AnnIdle == [pc |-> "idle"]
AnnDone == [pc |-> "done"]

\* variant of createAnnouncementValidation that lets every targetAudience through
createAnnouncementValidation_any(targetAudience) == targetAudience \in Audiences \cup {"Everyone"}
\* express-validator chain createAnnouncementValidation (targetAudience)
createAnnouncementValidation(targetAudience) == targetAudience \in Audiences

\* the if / else-if chain that picks the recipients; detail is the field of
\* targetDetails the chosen branch reads.  crashed: the Course branch read
\* enrolledStudents of null
CourseBranchCrashes(targetAudience, course) ==
    targetAudience = "Course" /\ course # Absent /\ Course_findById(course) = NullCourse

\* variant of CourseRecipients that maps every roster entry to its user (one
\* recipient per entry of enrolledStudents)
CourseRecipients_perRosterEntry(course) ==
    LET courseData == Course_findById(course)
    IN SelectSeq(courseData.enrolledStudents,
                 LAMBDA u : u \in DOMAIN users /\ users[u].isActive)

\* variant of CourseRecipients that also filters on role, like the other branches
CourseRecipients_studentsOnly(course) ==
    LET courseData == Course_findById(course)
    IN User_find({u \in DOMAIN users : u \in Range(courseData.enrolledStudents)
                                       /\ users[u].role = "student" /\ users[u].isActive})

CourseRecipients(course) ==
    LET courseData == Course_findById(course)
    IN User_find({u \in DOMAIN users : u \in Range(courseData.enrolledStudents) /\ users[u].isActive})

\* variant of Recipients whose Faculty branch leaves out isActive
Recipients_inactiveFaculty(targetAudience, detail, course) ==
    IF targetAudience = "All"
    THEN User_find({u \in DOMAIN users : users[u].role = "student" /\ users[u].isActive})
    ELSE IF targetAudience = "Faculty" /\ detail # Absent
    THEN User_find({u \in DOMAIN users : users[u].role = "student" /\ users[u].faculty = detail})
    ELSE IF targetAudience = "Department" /\ detail # Absent
    THEN User_find({u \in DOMAIN users : users[u].role = "student" /\ users[u].department = detail
                                       /\ users[u].isActive})
    ELSE IF targetAudience = "Level" /\ detail # Absent
    THEN User_find({u \in DOMAIN users : users[u].role = "student" /\ users[u].level = detail
                                       /\ users[u].isActive})
    ELSE IF targetAudience = "Course" /\ course # Absent
    THEN CourseRecipients(course)
    ELSE <<>>

Recipients(targetAudience, detail, course) ==
    IF targetAudience = "All"
    THEN User_find({u \in DOMAIN users : users[u].role = "student" /\ users[u].isActive})
    ELSE IF targetAudience = "Faculty" /\ detail # Absent
    THEN User_find({u \in DOMAIN users : users[u].role = "student" /\ users[u].faculty = detail
                                       /\ users[u].isActive})
    ELSE IF targetAudience = "Department" /\ detail # Absent
    THEN User_find({u \in DOMAIN users : users[u].role = "student" /\ users[u].department = detail
                                       /\ users[u].isActive})
    ELSE IF targetAudience = "Level" /\ detail # Absent
    THEN User_find({u \in DOMAIN users : users[u].role = "student" /\ users[u].level = detail
                                       /\ users[u].isActive})
    ELSE IF targetAudience = "Course" /\ course # Absent
    THEN CourseRecipients(course)
    ELSE <<>>

\* recipients.map(user => ({recipient: user._id, sender, type, link}))
AnnouncementNotifications(recipients, sender, id) ==
    [i \in 1..Len(recipients) |->
        [recipient |-> recipients[i], sender |-> sender,
         type |-> "new_announcement", link |-> id]]

\* validation and the course check, up to the await before Announcement.create
AnnounceCheck(author, targetAudience, detail, course) ==
    /\ ann.pc = "idle"
    /\ served < MaxRequests
    /\ LET courseData == Course_findById(course)
           status == IF ~createAnnouncementValidation(targetAudience) THEN 400
                     ELSE IF course # Absent /\ courseData = NullCourse THEN 404
                     ELSE IF course # Absent /\ users[author].role = "professor"
                             /\ courseData.professor # author THEN 403
                     ELSE 0
       IN IF status # 0
          THEN /\ lastOp' = [NoOp EXCEPT !.op = "announce", !.path = "announcements",
                                         !.from = author, !.status = status,
                                         !.rule = <<targetAudience, detail>>,
                                         !.course = course]
               /\ served' = served + 1
               /\ ann' = AnnDone
          ELSE /\ ann' = [pc |-> "create", author |-> author,
                          targetAudience |-> targetAudience, detail |-> detail,
                          course |-> course]
               /\ UNCHANGED <<lastOp, served>>
    /\ UNCHANGED <<users, pending, store, sockVars, courses, notifications, messages, announcements, grade, calc, exams>>

\* Announcement.create, recipient resolution, createBulkNotifications, response
AnnounceFanout(storeOk, k) ==
    /\ ann.pc = "create"
    /\ LET id == Len(announcements) + 1
           doc == [author |-> ann.author, targetAudience |-> ann.targetAudience,
                   course |-> ann.course]
           crashed == CourseBranchCrashes(ann.targetAudience, ann.course)
           recipients == IF crashed THEN <<>>
                         ELSE Recipients(ann.targetAudience, ann.detail, ann.course)
           docs == AnnouncementNotifications(recipients, ann.author, id)
           stored == StoredPrefix(docs, storeOk, k)
       IN /\ k \in 0..Len(docs)
          /\ (storeOk \/ Len(docs) = 0) => k = 0
          /\ ~storeOk => k < Len(docs) \/ Len(docs) = 0
          /\ announcements' = Append(announcements, doc)
          /\ notifications' = notifications \o stored
          /\ lastOp' = [NoOp EXCEPT !.op = "announce", !.path = "announcements",
                          !.from = ann.author,
                          !.status = IF crashed THEN 500 ELSE 201,
                          !.rule = <<ann.targetAudience, ann.detail>>,
                          !.course = ann.course,
                          !.courseMissing = (ann.course # Absent
                                             /\ Course_findById(ann.course) = NullCourse),
                          !.roster = IF ann.course \in DOMAIN courses
                                     THEN courses[ann.course].enrolledStudents ELSE <<>>,
                          !.recipients = recipients,
                          !.online = OnlineNow,
                          !.writes = IF Len(recipients) > 0 THEN 1 ELSE 0,
                          !.docs = docs, !.persisted = stored,
                          !.returned = IF Len(recipients) > 0
                                       THEN <<createResult(docs, storeOk)>> ELSE <<>>,
                          !.created = TRUE]
    /\ ann' = AnnDone
    /\ served' = served + 1
    /\ UNCHANGED <<users, pending, store, sockVars, courses, messages, grade, calc, exams>>

\* the handler of routes/announcements.js: course check, Announcement.create
\* (schema validation of targetAudience), io.emit('new_announcement')
AnnounceBroadcast(author, targetAudience, course) ==
    /\ ann.pc = "idle"
    /\ served < MaxRequests
    /\ LET courseData == Course_findById(course)
           status == IF course # Absent /\ users[author].role = "professor"
                        /\ (courseData = NullCourse \/ courseData.professor # author) THEN 403
                     ELSE IF targetAudience \notin Audiences THEN 500
                     ELSE 201
           doc == [author |-> author, targetAudience |-> targetAudience, course |-> course]
       IN /\ announcements' = IF status = 201 THEN Append(announcements, doc) ELSE announcements
          /\ lastEmit' = IF status = 201
                         THEN [event |-> "new_announcement", by |-> NoSocket, room |-> AllRoom,
                               userId |-> author, reached |-> Connected]
                         ELSE lastEmit
          /\ lastOp' = [NoOp EXCEPT !.op = "announce", !.path = "announcements.js",
                          !.from = author, !.status = status,
                          !.rule = <<targetAudience, Absent>>, !.course = course,
                          !.roster = IF course \in DOMAIN courses
                                     THEN courses[course].enrolledStudents ELSE <<>>,
                          !.online = OnlineNow,
                          !.live = IF status = 201 THEN {AllRoom} ELSE {},
                          !.created = (status = 201)]
    /\ ann' = AnnDone
    /\ served' = served + 1
    /\ UNCHANGED <<users, pending, store, sockets, activeUsers, rooms, announced, listeners,
                   courses, notifications, messages, grade, calc, exams>>

(***************************************************************************)
(* Direct messages over HTTP                                               *)
(***************************************************************************)
\* notificationHelpers.newMessage(recipientId, senderId, message)
newMessage(recipientId, senderId) ==
    [recipient |-> recipientId, sender |-> senderId, type |-> "new_message", link |-> 0]

\* POST /api/messages (routes/messages.js)
SendMessage(sender, receiver, storeOk) ==
    /\ served < MaxRequests
    /\ LET status == IF findById(receiver) = NullDoc THEN 404
                     ELSE IF receiver = sender THEN 400
                     ELSE 201
           docs == IF status = 201 THEN <<newMessage(receiver, sender)>> ELSE <<>>
           stored == StoredPrefix(docs, storeOk, 0)
       IN /\ messages' = IF status = 201
                         THEN Append(messages, [sender |-> sender, receiver |-> receiver])
                         ELSE messages
          /\ notifications' = notifications \o stored
          /\ lastOp' = [NoOp EXCEPT !.op = "direct", !.path = "messages",
                          !.from = sender, !.to = receiver, !.status = status,
                          !.writes = Len(docs), !.docs = docs, !.persisted = stored,
                          !.online = OnlineNow,
                          !.returned = IF status = 201
                                       THEN <<createResult(docs, storeOk)>> ELSE <<>>,
                          !.created = (status = 201)]
    /\ served' = served + 1
    /\ UNCHANGED <<users, pending, store, sockVars, courses, announcements, ann, grade, calc, exams>>

\* POST /api/messages/with-attachment; upload is "none" (no file), "ok" or
\* "fail" (uploadToCloudinary rejects)
SendMessageWithAttachment(sender, receiver, upload, storeOk) ==
    /\ served < MaxRequests
    /\ LET status == IF receiver = Absent THEN 400
                     ELSE IF findById(receiver) = NullDoc THEN 404
                     ELSE IF upload = "fail" THEN 500
                     ELSE 201
           docs == IF status = 201 THEN <<newMessage(receiver, sender)>> ELSE <<>>
           stored == StoredPrefix(docs, storeOk, 0)
       IN /\ messages' = IF status = 201
                         THEN Append(messages, [sender |-> sender, receiver |-> receiver])
                         ELSE messages
          /\ notifications' = notifications \o stored
          /\ lastOp' = [NoOp EXCEPT !.op = "direct", !.path = "messages/with-attachment",
                          !.from = sender, !.to = receiver, !.status = status,
                          !.writes = Len(docs), !.docs = docs, !.persisted = stored,
                          !.online = OnlineNow,
                          !.returned = IF status = 201
                                       THEN <<createResult(docs, storeOk)>> ELSE <<>>,
                          !.created = (status = 201)]
    /\ served' = served + 1
    /\ UNCHANGED <<users, pending, store, sockVars, courses, announcements, ann, grade, calc, exams>>

(***************************************************************************)
(* Exams                                                                   *)
(***************************************************************************)
\* notificationHelpers.examReminder(studentId, courseName, examDate, room)
examReminder(studentId) ==
    [recipient |-> studentId, sender |-> NoUser, type |-> "exam_reminder", link |-> 0]

\* students.forEach(async student => await examReminder(student._id, ...)):
\* one createNotification call per student; ok holds the students whose
\* document the store accepts
ExamReminders(students) == [i \in 1..Len(students) |-> examReminder(students[i])]
ReminderResults(students, ok) ==
    [i \in 1..Len(students) |-> IF students[i] \in ok THEN 1 ELSE NullResult]

\* POST /api/exams
CreateExam(author, course, isPublished, ok) ==
    /\ served < MaxRequests
    /\ LET courseData == Course_findById(course)
           status == IF courseData = NullCourse THEN 404
                     ELSE IF users[author].role = "professor" /\ courseData.professor # author
                     THEN 403 ELSE 201
           students == IF status = 201 /\ isPublished
                       THEN User_find(Range(courseData.enrolledStudents)) ELSE <<>>
           docs == ExamReminders(students)
           stored == SelectSeq(docs, LAMBDA d : d.recipient \in ok)
       IN /\ ok \subseteq Range(students)
          /\ exams' = IF status = 201
                      THEN Append(exams, [course |-> course, isPublished |-> isPublished])
                      ELSE exams
          /\ notifications' = notifications \o stored
          /\ lastOp' = [NoOp EXCEPT !.op = "exam", !.path = "exams",
                          !.from = author, !.status = status, !.course = course,
                          !.roster = IF courseData = NullCourse THEN <<>>
                                     ELSE courseData.enrolledStudents,
                          !.recipients = students,
                          !.writes = Len(docs), !.docs = docs, !.persisted = stored,
                          !.returned = ReminderResults(students, ok),
                          !.created = (status = 201)]
    /\ served' = served + 1
    /\ UNCHANGED <<users, pending, store, sockVars, courses, messages, announcements, ann, grade, calc>>

\* PUT /api/exams/:id with isPublished: true in the body, e being the exam found
PublishExam(author, e, ok) ==
    /\ served < MaxRequests
    /\ e \in DOMAIN exams
    /\ LET courseData == Course_findById(exams[e].course)
           professor == users[author].role = "professor"
           denied == IF ~professor THEN 200
                     ELSE IF courseData = NullCourse THEN 500
                     ELSE IF courseData.professor # author THEN 403 ELSE 200
           newly == ~exams[e].isPublished
           status == IF denied # 200 THEN denied
                     ELSE IF newly /\ courseData = NullCourse THEN 500 ELSE 200
           students == IF status = 200 /\ newly
                       THEN User_find(Range(courseData.enrolledStudents)) ELSE <<>>
           docs == ExamReminders(students)
           stored == SelectSeq(docs, LAMBDA d : d.recipient \in ok)
       IN /\ ok \subseteq Range(students)
          /\ exams' = IF denied = 200 THEN [exams EXCEPT ![e].isPublished = TRUE] ELSE exams
          /\ notifications' = notifications \o stored
          /\ lastOp' = [NoOp EXCEPT !.op = "exam", !.path = "exams/:id",
                          !.from = author, !.status = status, !.course = exams[e].course,
                          !.roster = IF courseData = NullCourse THEN <<>>
                                     ELSE courseData.enrolledStudents,
                          !.recipients = students,
                          !.writes = Len(docs), !.docs = docs, !.persisted = stored,
                          !.returned = ReminderResults(students, ok)]
    /\ served' = served + 1
    /\ UNCHANGED <<users, pending, store, sockVars, courses, messages, announcements, ann, grade, calc>>

(***************************************************************************)
(* Courses                                                                 *)
(***************************************************************************)
\* DELETE /api/courses/:id
DeleteCourse(author, c) ==
    /\ served < MaxRequests
    /\ LET course == Course_findById(c)
           status == IF course = NullCourse THEN 404
                     ELSE IF users[author].role = "professor" /\ course.professor # author
                     THEN 403 ELSE 200
       IN /\ courses' = IF status = 200
                        THEN [d \in DOMAIN courses \ {c} |-> courses[d]] ELSE courses
          /\ lastOp' = [NoOp EXCEPT !.op = "deleteCourse", !.path = "courses",
                                    !.from = author, !.status = status, !.course = c]
    /\ served' = served + 1
    /\ UNCHANGED <<users, pending, store, sockVars, notifications, messages, announcements, ann, grade, calc, exams>>

\* PUT /api/courses/:id with an enrolledStudents array in the body
UpdateCourse(author, c, roster) ==
    /\ served < MaxRequests
    /\ LET course == Course_findById(c)
           status == IF course = NullCourse THEN 404
                     ELSE IF users[author].role = "professor" /\ course.professor # author
                     THEN 403 ELSE 200
       IN /\ courses' = IF status = 200
                        THEN [courses EXCEPT ![c].enrolledStudents = roster] ELSE courses
          /\ lastOp' = [NoOp EXCEPT !.op = "updateCourse", !.path = "courses",
                                    !.from = author, !.status = status, !.course = c]
    /\ served' = served + 1
    /\ UNCHANGED <<users, pending, store, sockVars, notifications, messages, announcements, ann, grade, calc, exams>>

(***************************************************************************)
(* Grades                                                                  *)
(* Numbers are fixed point: a weight w is held as 100*w, a composite g as  *)
(* 100*g, so 0.3 is 30 and 9.8 is 980.                                     *)
(***************************************************************************)
\* finalGrade has no default: unset until the hook assigns it
Undefined == -1
NoGrade == [assessments |-> <<>>, finalGrade |-> Undefined, status |-> "absent"]

RECURSIVE GCD(_, _)
GCD(a, b) == IF b = 0 THEN a ELSE GCD(b, a % b)
LCM(a, b) == (a * b) \div GCD(a, b)

\* common denominator of the fractions score / maxScore
RECURSIVE Denominator(_)
Denominator(assessments) ==
    IF assessments = <<>> THEN 1
    ELSE LCM(Head(assessments).maxScore, Denominator(Tail(assessments)))

\* weightedSum += (score / maxScore) * 20 * weight, as a numerator over d
RECURSIVE weightedSum(_, _)
weightedSum(assessments, d) ==
    IF assessments = <<>> THEN 0
    ELSE LET a == Head(assessments)
         IN a.score * (d \div a.maxScore) * 20 * a.weight + weightedSum(Tail(assessments), d)

\* totalWeight += weight
RECURSIVE totalWeight(_)
totalWeight(assessments) ==
    IF assessments = <<>> THEN 0
    ELSE Head(assessments).weight + totalWeight(Tail(assessments))

\* the quotient weightedSum / totalWeight in hundredths, as the fraction num / den
Quotient(assessments) ==
    LET d == Denominator(assessments)
    IN [num |-> 100 * weightedSum(assessments, d), den |-> d * totalWeight(assessments)]

\* the quotient lies exactly half way between two hundredths
IsTie(q) == 2 * (q.num % q.den) = q.den

\* Number(x.toFixed(2)): the hundredth nearest to x. x is a binary double, so
\* when the exact quotient is a tie the rounding error of the division decides
\* which of the two neighbours is nearest: tieUp is that outcome.
toFixed2(q, tieUp) ==
    LET n == q.num \div q.den
        r == 2 * (q.num % q.den)
    IN IF r > q.den \/ (r = q.den /\ tieUp) THEN n + 1 ELSE n

\* variant: the sum is divided by the number of assessments
preSave_perAssessment(doc, tieUp) ==
    IF Len(doc.assessments) > 0 /\ totalWeight(doc.assessments) > 0
    THEN LET d == Denominator(doc.assessments)
             fg == toFixed2([num |-> weightedSum(doc.assessments, d),
                             den |-> d * Len(doc.assessments)], tieUp)
         IN [doc EXCEPT !.finalGrade = fg,
                        !.status = IF fg >= 1000 THEN "Pass" ELSE "Fail"]
    ELSE doc

\* gradeSchema.pre('save')
preSave(doc, tieUp) ==
    IF Len(doc.assessments) > 0 /\ totalWeight(doc.assessments) > 0
    THEN LET fg == toFixed2(Quotient(doc.assessments), tieUp)
         IN [doc EXCEPT !.finalGrade = fg,
                        !.status = IF fg >= 1000 THEN "Pass" ELSE "Fail"]
    ELSE doc

\* a tie outcome exists only where the quotient is a tie
TieChoice(assessments, tieUp) ==
    tieUp => /\ totalWeight(assessments) > 0
             /\ IsTie(Quotient(assessments))

\* the hook applied to a list on its own
NoCalc == [input |-> <<>>, roundsUp |-> {}, runs |-> <<>>]

\* the orders in which a list can be stored
Orders(assessments) ==
    {[i \in 1..Len(assessments) |-> assessments[f[i]]] :
        f \in Permutations(1..Len(assessments))}

Before(a, b) ==
    \/ a.score < b.score
    \/ a.score = b.score /\ a.maxScore < b.maxScore
    \/ a.score = b.score /\ a.maxScore = b.maxScore /\ a.weight <= b.weight

\* what the doubles weightedSum and totalWeight depend on: the additions are
\* made in list order starting from 0; double addition is commutative, so the
\* first two entries may be exchanged, but it is not associative, so any other
\* reordering can change the last bit of the sums
RoundingKey(assessments) ==
    IF Len(assessments) >= 2 /\ ~Before(assessments[1], assessments[2])
    THEN <<assessments[2], assessments[1]>> \o SubSeq(assessments, 3, Len(assessments))
    ELSE assessments

\* the lists whose exact quotient is a tie, by rounding key
TieKeys(assessments) ==
    IF totalWeight(assessments) > 0 /\ IsTie(Quotient(assessments))
    THEN {RoundingKey(o) : o \in Orders(assessments)}
    ELSE {}

\* new Grade({assessments: order}).save(): the fields the hook leaves
Compute(order) ==
    /\ order \in Orders(calc.input)
    /\ LET doc == preSave([assessments |-> order, finalGrade |-> Undefined,
                           status |-> "Pending"],
                          RoundingKey(order) \in calc.roundsUp)
           run == [order |-> order, finalGrade |-> doc.finalGrade, status |-> doc.status]
       IN calc' = [calc EXCEPT !.runs = IF calc.runs = <<>> THEN <<run>>
                                        ELSE <<calc.runs[Len(calc.runs)], run>>]
    /\ UNCHANGED <<users, pending, store, sockVars, courses, notifications, messages, announcements,
                   ann, served, lastOp, grade, exams>>

\* the graded course is c1
GradeCourse == "c1"
\* POST /api/grades: Course.findById, then the ownership check
GradeStatus(author) ==
    LET course == Course_findById(GradeCourse)
    IN IF users[author].role = "professor" /\
          (course = NullCourse \/ course.professor # author)
       THEN 403 ELSE 201
\* the assessment routes: grade.course is populated, null when the course is gone
AssessmentStatus(author) ==
    LET course == Course_findById(GradeCourse)
    IN IF users[author].role # "professor" THEN 200
       ELSE IF course = NullCourse THEN 500
       ELSE IF course.professor # author THEN 403 ELSE 200

\* POST /api/grades
PostGrade(author, assessments, tieUp) ==
    /\ TieChoice(assessments, tieUp)
    /\ LET status == GradeStatus(author)
           doc == IF grade = NoGrade
                  THEN [assessments |-> assessments, finalGrade |-> Undefined,
                        status |-> "Pending"]
                  ELSE [grade EXCEPT !.assessments = assessments]
       IN /\ grade' = IF status = 201 THEN preSave(doc, tieUp) ELSE grade
          /\ lastOp' = [NoOp EXCEPT !.op = "postGrade", !.path = "grades",
                                    !.status = status]
    /\ UNCHANGED <<users, pending, store, sockVars, courses, notifications, messages, announcements,
                   ann, served, calc, exams>>

\* POST /api/grades/:id/assessments
AddAssessment(author, a, tieUp) ==
    /\ grade # NoGrade
    /\ Len(grade.assessments) < MaxAssessments
    /\ TieChoice(Append(grade.assessments, a), tieUp)
    /\ LET status == AssessmentStatus(author)
           doc == [grade EXCEPT !.assessments = Append(grade.assessments, a)]
       IN /\ grade' = IF status = 200 THEN preSave(doc, tieUp) ELSE grade
          /\ lastOp' = [NoOp EXCEPT !.op = "addAssessment", !.path = "grades",
                                    !.status = status]
    /\ UNCHANGED <<users, pending, store, sockVars, courses, notifications, messages, announcements,
                   ann, served, calc, exams>>

\* assessments.filter(a => a._id !== assessmentId), the i-th entry being that one
WithoutAssessment(assessments, i) ==
    SubSeq(assessments, 1, i - 1) \o SubSeq(assessments, i + 1, Len(assessments))

\* DELETE /api/grades/:gradeId/assessments/:assessmentId
DeleteAssessment(author, i, tieUp) ==
    /\ grade # NoGrade
    /\ i \in 1..Len(grade.assessments)
    /\ TieChoice(WithoutAssessment(grade.assessments, i), tieUp)
    /\ LET status == AssessmentStatus(author)
           doc == [grade EXCEPT !.assessments = WithoutAssessment(grade.assessments, i)]
       IN /\ grade' = IF status = 200 THEN preSave(doc, tieUp) ELSE grade
          /\ lastOp' = [NoOp EXCEPT !.op = "deleteAssessment", !.path = "grades",
                                    !.status = status]
    /\ UNCHANGED <<users, pending, store, sockVars, courses, notifications, messages, announcements,
                   ann, served, calc, exams>>

\* Object.assign(assessment, req.body), the body carrying score, maxScore and weight
WithAssessment(assessments, i, a) == [assessments EXCEPT ![i] = a]

\* PUT /api/grades/:gradeId/assessments/:assessmentId
EditAssessment(author, i, a, tieUp) ==
    /\ grade # NoGrade
    /\ i \in 1..Len(grade.assessments) => TieChoice(WithAssessment(grade.assessments, i, a), tieUp)
    /\ i \notin 1..Len(grade.assessments) => ~tieUp
    /\ LET auth == AssessmentStatus(author)
           status == IF auth # 200 THEN auth
                     ELSE IF i \notin 1..Len(grade.assessments) THEN 404 ELSE 200
       IN /\ grade' = IF status = 200
                      THEN preSave([grade EXCEPT !.assessments =
                                       WithAssessment(grade.assessments, i, a)], tieUp)
                      ELSE grade
          /\ lastOp' = [NoOp EXCEPT !.op = "editAssessment", !.path = "grades",
                                    !.status = status]
    /\ UNCHANGED <<users, pending, store, sockVars, courses, notifications, messages, announcements,
                   ann, served, calc, exams>>

\* PUT /api/grades/:id: Grade.findByIdAndUpdate(id, req.body), which runs no
\* save hook; body.set names the field the body carries
UpdateGrade(author, body) ==
    /\ grade # NoGrade
    /\ LET status == AssessmentStatus(author)
           doc == IF body.set = "assessments"
                  THEN [grade EXCEPT !.assessments = body.assessments]
                  ELSE IF body.set = "finalGrade"
                  THEN [grade EXCEPT !.finalGrade = body.finalGrade]
                  ELSE grade
       IN /\ grade' = IF status = 200 THEN doc ELSE grade
          /\ lastOp' = [NoOp EXCEPT !.op = "updateGrade", !.path = "grades",
                                    !.status = status]
    /\ UNCHANGED <<users, pending, store, sockVars, courses, notifications, messages, announcements,
                   ann, served, calc, exams>>

(***************************************************************************)
(* Specifications                                                          *)
(***************************************************************************)
InitDb ==
    /\ courses = [c \in CourseIds |->
                    [professor |-> "p1", enrolledStudents |-> <<>>,
                     maxStudents |-> DefaultMaxStudents]]
    /\ notifications = <<>>
    /\ messages = <<>>
    /\ announcements = <<>>
    /\ ann = AnnIdle
    /\ served = 0
    /\ lastOp = NoOp
    /\ grade = NoGrade
    /\ calc = NoCalc
    /\ exams = <<>>
    /\ pending = NoPending
    /\ store = NoStore

InitSockets ==
    /\ sockets = [s \in SocketIds |-> NewSocket]
    /\ activeUsers = [u \in UserIds \cup {GhostId} |-> NoSocket]
    /\ rooms = [s \in SocketIds |-> {}]
    /\ announced = {}
    /\ listeners = {}
    /\ lastEmit = NoEmit

\* the gateway alone
InitSocket ==
    /\ users = DefaultUsers
    /\ InitSockets
    /\ InitDb

NextSocket ==
    \/ \E s \in SocketIds, tok \in Tokens : Connect(s, tok)
    \/ \E s \in SocketIds, dbOk \in BOOLEAN, joinTakes \in BOOLEAN : FindByIdReturns(s, dbOk, joinTakes)
    \/ \E s \in SocketIds : TransportClose(s)
    \/ \E s \in SocketIds, r \in Receivers : send_message(s, r)
    \/ \E s \in SocketIds, r \in Receivers, b \in BOOLEAN : typing(s, r, b)
    \/ \E s \in SocketIds, c \in CourseArgs : join_course(s, c)
    \/ \E s \in SocketIds, c \in CourseArgs : leave_course(s, c)
    \/ \E s \in SocketIds, k \in ClubArgs : join_club(s, k)
    \/ \E s \in SocketIds, k \in ClubArgs : leave_club(s, k)
    \/ \E u \in UserIds : emitToUser(u)

SpecSocket == InitSocket /\ [][NextSocket]_vars

\* audience resolution and fan-out of announcements over every directory
RosterIds == {"u1", "u2", "p1"}
Rosters == SeqsUpTo(RosterIds, MaxRoster)
Details == {Absent, "CS", "D1", "L3"}

InitFanout ==
    /\ \E active \in [{"u1", "u2"} -> BOOLEAN] :
          users = [u \in UserIds |->
                      [DefaultUsers[u] EXCEPT !.isActive = IF u \in DOMAIN active THEN active[u] ELSE TRUE]]
    /\ InitSockets
    /\ InitDb

NextFanout ==
    \/ \E a \in Staff, t \in Audiences \cup {"Everyone"}, d \in Details,
          c \in CourseIds \cup {MissingCourse, Absent} : AnnounceCheck(a, t, d, c)
    \/ \E ok \in BOOLEAN, k \in 0..Cardinality(UserIds) : AnnounceFanout(ok, k)
    \/ \E a \in Professors, c \in CourseIds : DeleteCourse(a, c)
    \/ \E a \in Professors, c \in CourseIds, r \in Rosters : UpdateCourse(a, c, r)

SpecFanout == InitFanout /\ [][NextFanout]_vars

\* live delivery next to the HTTP routes: one connection, the message routes,
\* a course announcement
ScenarioRoster == <<"u1", "u2", "u3">>
LiveTokens == {"u1", "u2"}
LiveReceivers == {"u1", "u2", GhostId}

InitLive ==
    /\ users = DefaultUsers
    /\ InitSockets
    /\ InitDb

NextLive ==
    \/ \E tok \in LiveTokens : Connect(1, tok)
    \/ \E dbOk \in BOOLEAN, joinTakes \in BOOLEAN : FindByIdReturns(1, dbOk, joinTakes)
    \/ TransportClose(1)
    \/ \E r \in LiveReceivers : send_message(1, r)
    \/ \E r \in LiveReceivers, ok \in BOOLEAN : SendMessage("u1", r, ok)
    \/ \E r \in LiveReceivers \cup {Absent}, up \in {"none", "ok", "fail"}, ok \in BOOLEAN :
          SendMessageWithAttachment("u1", r, up, ok)
    \/ UpdateCourse("p1", "c1", ScenarioRoster)
    \/ AnnounceCheck("p1", "Course", Absent, "c1")
    \/ \E ok \in BOOLEAN, k \in 0..Cardinality(UserIds) : AnnounceFanout(ok, k)
    \/ AnnounceBroadcast("p1", "Course", "c1")

SpecLive == InitLive /\ [][NextLive]_vars

\* the grade write path over a grid of assessments
Marks == {<<14, 20, 30>>, <<8, 20, 70>>, <<9, 20, 30>>, <<8, 20, 50>>,
          <<5, 10, 30>>, <<5, 10, 0>>}
Assessments == {[score |-> m[1], maxScore |-> m[2], weight |-> m[3]] : m \in Marks}
AssessmentLists == SeqsUpTo(Assessments, MaxAssessments)
GradeAuthors == {"p1", "p2"}

InitGrade ==
    /\ users = DefaultUsers
    /\ InitSockets
    /\ InitDb

NextGrade ==
    \/ \E a \in GradeAuthors, as \in AssessmentLists, t \in BOOLEAN :
          PostGrade(a, as, t)
    \/ \E a \in GradeAuthors, x \in Assessments, t \in BOOLEAN : AddAssessment(a, x, t)
    \/ \E a \in GradeAuthors, i \in 1..MaxAssessments, t \in BOOLEAN : DeleteAssessment(a, i, t)
    \/ \E a \in GradeAuthors, i \in 1..MaxAssessments, x \in Assessments, t \in BOOLEAN :
          EditAssessment(a, i, x, t)

SpecGrade == InitGrade /\ [][NextGrade]_vars

\* every grade mutation, the generic update included
RouteMarks == {<<14, 20, 30>>, <<8, 20, 70>>, <<5, 10, 0>>}
RouteAssessments == {[score |-> m[1], maxScore |-> m[2], weight |-> m[3]] : m \in RouteMarks}
RouteLists == SeqsUpTo(RouteAssessments, MaxAssessments)
UpdateBodies ==
    {[set |-> "assessments", assessments |-> as, finalGrade |-> Undefined] : as \in RouteLists}
    \cup {[set |-> "finalGrade", assessments |-> <<>>, finalGrade |-> 2000],
          [set |-> "remarks", assessments |-> <<>>, finalGrade |-> Undefined]}

InitGradeRoutes ==
    /\ users = DefaultUsers
    /\ InitSockets
    /\ InitDb

NextGradeRoutes ==
    \/ \E a \in GradeAuthors, as \in RouteLists, t \in BOOLEAN : PostGrade(a, as, t)
    \/ \E a \in GradeAuthors, x \in RouteAssessments, t \in BOOLEAN : AddAssessment(a, x, t)
    \/ \E a \in GradeAuthors, i \in 1..MaxAssessments, x \in RouteAssessments, t \in BOOLEAN :
          EditAssessment(a, i, x, t)
    \/ \E a \in GradeAuthors, i \in 1..MaxAssessments, t \in BOOLEAN : DeleteAssessment(a, i, t)
    \/ \E a \in GradeAuthors, body \in UpdateBodies : UpdateGrade(a, body)

SpecGradeRoutes == InitGradeRoutes /\ [][NextGradeRoutes]_vars

\* the computation on its own, over every list of a grid and every rounding
\* of its ties
ComputeMarks == {<<8, 20, 10>>, <<9, 20, 30>>, <<8, 20, 40>>}
ComputeAssessments ==
    {[score |-> m[1], maxScore |-> m[2], weight |-> m[3]] : m \in ComputeMarks}
ComputeLists == SeqsUpTo(ComputeAssessments, MaxInputs)

InitCompute ==
    /\ users = DefaultUsers
    /\ InitSockets
    /\ courses = [c \in CourseIds |->
                    [professor |-> "p1", enrolledStudents |-> <<>>,
                     maxStudents |-> DefaultMaxStudents]]
    /\ notifications = <<>>
    /\ messages = <<>>
    /\ announcements = <<>>
    /\ ann = AnnIdle
    /\ served = 0
    /\ lastOp = NoOp
    /\ grade = NoGrade
    /\ exams = <<>>
    /\ pending = NoPending
    /\ store = NoStore
    /\ \E as \in ComputeLists :
          \E up \in SUBSET TieKeys(as) :
              calc = [input |-> as, roundsUp |-> up, runs |-> <<>>]

NextCompute ==
    \E order \in ComputeLists : Compute(order)

SpecCompute == InitCompute /\ [][NextCompute]_vars

\* the routes that notify, with a store that can reject writes
NotifyRoster == <<"u1", "u2">>
NotifyAuthors == {"p1", "a1"}

InitNotify ==
    /\ users = DefaultUsers
    /\ InitSockets
    /\ courses = [c \in CourseIds |->
                    [professor |-> "p1", enrolledStudents |-> NotifyRoster,
                     maxStudents |-> DefaultMaxStudents]]
    /\ notifications = <<>>
    /\ messages = <<>>
    /\ announcements = <<>>
    /\ ann = AnnIdle
    /\ served = 0
    /\ lastOp = NoOp
    /\ grade = NoGrade
    /\ calc = NoCalc
    /\ exams = <<>>
    /\ pending = NoPending
    /\ store = NoStore

NextNotify ==
    \/ \E t \in {"All", "Course"} : AnnounceCheck("p1", t, Absent, "c1")
    \/ \E ok \in BOOLEAN, k \in 0..Len(NotifyRoster) : AnnounceFanout(ok, k)
    \/ \E r \in {"u2", GhostId}, ok \in BOOLEAN : SendMessage("u1", r, ok)
    \/ \E ok \in BOOLEAN : SendMessageWithAttachment("u1", "u2", "ok", ok)
    \/ \E a \in NotifyAuthors, pub \in BOOLEAN, ok \in SUBSET Range(NotifyRoster) :
          CreateExam(a, "c1", pub, ok)
    \/ \E a \in NotifyAuthors, e \in 1..MaxRequests, ok \in SUBSET Range(NotifyRoster) :
          PublishExam(a, e, ok)
    \/ DeleteCourse("p1", "c1")

SpecNotify == InitNotify /\ [][NextNotify]_vars

(***************************************************************************)
(* Properties of the socket gateway (SpecSocket)                           *)
(***************************************************************************)
\* C1: an identity that still has a live registered connection is online:
\* isOnline(identity) holds and the identity is in onlineIdentities(), so
\* deregistering one of two connections leaves it online until the second is
\* deregistered too.
C1_OnlineUntilLastConnectionCloses ==
    \A u \in UserIds :
        LiveConnections(u) # {} => isUserOnline(u) /\ u \in getOnlineUsers

\* C2: the registry (activeUsers and the room memberships) holds only
\* connections that authenticated and whose transport is open, and every live
\* registered connection's identity is in the registry (no registration lost).
C2_RegistryHoldsOnlyLiveConnections ==
    /\ \A u \in DOMAIN activeUsers :
          activeUsers[u] # NoSocket =>
             /\ sockets[activeUsers[u]].connected
             /\ sockets[activeUsers[u]].pc = "active"
    /\ \A s \in SocketIds : rooms[s] # {} => sockets[s].connected
    /\ \A u \in UserIds : LiveConnections(u) # {} => activeUsers[u] # NoSocket

\* C3: a connection attempt whose authentication failed left no state behind:
\* no activeUsers entry names it, it is in no room, no presence event was
\* broadcast for it, no listeners were registered on it and it carries no
\* identity.
C3_FailedAuthLeavesNoState ==
    \A s \in SocketIds :
        sockets[s].pc = "failed" =>
            /\ \A u \in DOMAIN activeUsers : activeUsers[u] # s
            /\ rooms[s] = {}
            /\ s \notin announced
            /\ s \notin listeners
            /\ sockets[s].userId = NoUser
            /\ ~sockets[s].connected
            /\ (lastEmit # NoEmit => lastEmit.by # s)

\* a connection whose token names no directory record was rejected while
\* another connection is registered
C3_Witness ==
    \E s, t \in SocketIds :
        /\ sockets[s].pc = "failed" /\ sockets[s].token = GhostId
        /\ sockets[t].pc = "active" /\ activeUsers[sockets[t].userId] = t

(***************************************************************************)
(* Properties of direct messages and live delivery (SpecLive)              *)
(***************************************************************************)
\* C4: every direct message that was sent, over the HTTP message routes or
\* over the socket event 'send_message', made one write of exactly one
\* NotificationRecord for its recipient, whoever is online.
C4_DirectSendWritesOneRecord ==
    /\ (lastOp.op = "direct" /\ lastOp.status = 201) =>
          /\ lastOp.writes = 1
          /\ Len(lastOp.docs) = 1
          /\ lastOp.docs[1].recipient = lastOp.to
    /\ lastEmit.event = "receive_message" =>
          \E i \in DOMAIN notifications :
              notifications[i] = newMessage(lastEmit.room[2], lastEmit.userId)

\* C5: an announcement with rule Course for a course with 3 enrolled students
\* of whom exactly 1 is online creates exactly 3 NotificationRecords and
\* attempts exactly 1 live delivery, to the online student's user room.
C5_CourseFanoutScenario ==
    LET enrolled == Range(lastOp.roster)
    IN (/\ lastOp.op = "announce" /\ lastOp.status = 201
        /\ lastOp.rule[1] = "Course"
        /\ Len(lastOp.roster) = 3 /\ Cardinality(enrolled) = 3
        /\ Cardinality(enrolled \cap lastOp.online) = 1)
       => /\ Len(lastOp.docs) = 3
          /\ lastOp.live = {UserRoom(u) : u \in enrolled \cap lastOp.online}

(***************************************************************************)
(* Properties of the audience resolution (SpecFanout)                      *)
(***************************************************************************)
\* the last finished request is an announcement that went through the
\* recipient resolution of POST /api/announcements
Resolved == lastOp.op = "announce" /\ lastOp.path = "announcements" /\ lastOp.status = 201

RecordsOf(u) ==
    {i \in DOMAIN notifications :
        notifications[i].recipient = u /\ notifications[i].type = "new_announcement"}

\* C6: the resolved recipients contain no identity twice and the fan-out hands
\* exactly one NotificationRecord per resolved identity to the store, also when
\* the roster lists the identity more than once; the store never ends up with
\* two records of one announcement for one identity, and holds exactly one for
\* each resolved identity when the write went through.
C6_OneRecordPerResolvedIdentity ==
    Resolved =>
        /\ \A i, j \in DOMAIN lastOp.recipients :
              lastOp.recipients[i] = lastOp.recipients[j] => i = j
        /\ Len(lastOp.docs) = Len(lastOp.recipients)
        /\ \A i \in DOMAIN lastOp.docs : lastOp.docs[i].recipient = lastOp.recipients[i]
        /\ \A u \in UserIds : Cardinality(RecordsOf(u)) <= 1
        /\ Len(lastOp.persisted) = Len(lastOp.docs) =>
              \A u \in Range(lastOp.recipients) : Cardinality(RecordsOf(u)) = 1

\* a Course announcement went out for a roster that lists a student twice
C6_Witness ==
    /\ Resolved
    /\ lastOp.rule[1] = "Course"
    /\ Len(lastOp.roster) > Cardinality(Range(lastOp.roster))
    /\ Len(lastOp.persisted) >= 1

\* the attribute of a user document a rule compares
Attribute(u, targetAudience) ==
    IF targetAudience = "Faculty" THEN users[u].faculty
    ELSE IF targetAudience = "Department" THEN users[u].department
    ELSE users[u].level

\* C7: rule All resolves to exactly the active students; Faculty(name),
\* Department(name) and Level(value) resolve to exactly the active students
\* whose faculty, department or level is the given value; never an inactive
\* identity, a professor or an admin.
C7_AttributeRulesResolveActiveStudents ==
    Resolved =>
        /\ lastOp.rule[1] = "All" =>
              Range(lastOp.recipients) =
                 {u \in UserIds : users[u].role = "student" /\ users[u].isActive}
        /\ (lastOp.rule[1] \in {"Faculty", "Department", "Level"} /\ lastOp.rule[2] # Absent) =>
              Range(lastOp.recipients) =
                 {u \in UserIds : /\ users[u].role = "student" /\ users[u].isActive
                                  /\ Attribute(u, lastOp.rule[1]) = lastOp.rule[2]}
        /\ lastOp.rule[1] \in {"All", "Faculty", "Department", "Level"} =>
              \A u \in Range(lastOp.recipients) :
                  users[u].isActive /\ users[u].role = "student"

\* a Faculty("CS") announcement resolved while a CS student is inactive (and a
\* CS professor exists)
C7_Witness ==
    /\ Resolved
    /\ lastOp.rule = <<"Faculty", "CS">>
    /\ \E u \in Students : users[u].faculty = "CS" /\ ~users[u].isActive
    /\ \E u \in Professors : users[u].faculty = "CS"
    /\ \E u \in Admins : users[u].faculty = "CS"
    /\ lastOp.recipients # <<>>

C9_MissingCourseResolvesEmpty ==
    (/\ lastOp.op = "announce" /\ lastOp.path = "announcements"
     /\ Len(announcements) > 0
     /\ lastOp.rule[1] = "Course" /\ lastOp.courseMissing)
    => /\ lastOp.status = 201
       /\ lastOp.recipients = <<>>
       /\ lastOp.docs = <<>>

(***************************************************************************)
(* Properties of the composite grade (SpecGrade)                           *)
(***************************************************************************)
\* the assessment list of scenario A: TD 14/20 weight 0.3, Exam 8/20 weight 0.7
ScenarioA == <<[score |-> 14, maxScore |-> 20, weight |-> 30],
               [score |-> 8, maxScore |-> 20, weight |-> 70]>>

C11_NoStaleComposite ==
    grade # NoGrade =>
        \E t \in BOOLEAN : TieChoice(grade.assessments, t) /\ preSave(grade, t) = grade

\* C12: a stored grade whose assessment list is empty or has total weight 0
\* has no numeric composite (finalGrade is Undefined, not 0 and not an earlier
\* value) and status Pending.
C12_ZeroWeightIsUndefined ==
    (grade # NoGrade /\ totalWeight(grade.assessments) = 0) =>
        grade.finalGrade = Undefined /\ grade.status = "Pending"

(***************************************************************************)
(* Properties of the computation on its own (SpecCompute)                  *)
(***************************************************************************)
\* C13: for a list with total weight > 0, any two runs of the computation, on
\* the same order or on two permutations of the list, give the same composite
\* and the same status.
C13_DeterministicAndOrderIndependent ==
    totalWeight(calc.input) > 0 =>
        \A i, j \in DOMAIN calc.runs :
            /\ calc.runs[i].finalGrade = calc.runs[j].finalGrade
            /\ calc.runs[i].status = calc.runs[j].status

(***************************************************************************)
(* Properties of the notifying routes (SpecNotify)                         *)
(***************************************************************************)
RECURSIVE Sum(_)
Sum(q) == IF q = <<>> THEN 0 ELSE Head(q) + Sum(Tail(q))

\* C14: when the store failed to persist some or all notification records of
\* a notify operation, what the operation returns to its caller is not null
\* and tells how many records were persisted, so that attempted and persisted
\* counts can be told apart; the failure is not swallowed.
C14_PersistenceFailureReported ==
    (lastOp.op \in {"announce", "direct", "exam"} /\ Len(lastOp.persisted) < Len(lastOp.docs)) =>
        /\ lastOp.returned # <<>>
        /\ \A i \in DOMAIN lastOp.returned : lastOp.returned[i] # NullResult
        /\ Sum(lastOp.returned) = Len(lastOp.persisted)

\* C15: once a request has created its domain record (announcement, message,
\* exam), the record stays stored and the request answers success, whatever
\* fails during the notification fan-out.
C15_FanoutFailureIsNotBlocking ==
    (lastOp.op \in {"announce", "direct", "exam"} /\ lastOp.created) =>
        /\ lastOp.status = 201
        /\ lastOp.op = "announce" => Len(announcements) > 0
        /\ lastOp.op = "direct" => Len(messages) > 0
        /\ lastOp.op = "exam" => Len(exams) > 0

\* C16: an audience fan-out (announcement created, exam published) with at
\* least one resolved recipient makes exactly one write call to the
\* notification store, whatever the number of recipients.
C16_FanoutIsOneBulkWrite ==
    (lastOp.op \in {"announce", "exam"} /\ Len(lastOp.recipients) > 0) =>
        lastOp.writes = 1

(***************************************************************************)
(* Properties of presence and rooms (SpecSocket)                           *)
(***************************************************************************)
\* C17: 'user_offline' is broadcast for an identity only when the closing
\* connection was its last live one: after the broadcast the identity has no
\* live registered connection.
C17_OfflineOnlyOnLastClose ==
    lastEmit.event = "user_offline" => LiveConnections(lastEmit.userId) = {}

\* C18: a connection whose 'disconnect' handler has run is in no room and no
\* registry entry refers to it; if no connection of its identity is registered
\* any more, isUserOnline is false for the identity and getOnlineUsers does
\* not list it.
C18_DeregisteredLeavesNothing ==
    \A s \in SocketIds :
        sockets[s].pc = "closed" =>
            /\ rooms[s] = {}
            /\ \A u \in DOMAIN activeUsers : activeUsers[u] # s
            /\ (\A t \in SocketIds :
                   ~(sockets[t].pc = "active" /\ sockets[t].userId = sockets[s].userId))
               => /\ ~isUserOnline(sockets[s].userId)
                  /\ sockets[s].userId \notin getOnlineUsers

\* two connections of one identity were registered and both have closed
C18_Witness ==
    \E s, t \in SocketIds :
        /\ s # t
        /\ sockets[s].pc = "closed" /\ sockets[t].pc = "closed"
        /\ sockets[s].userId = sockets[t].userId

\* the rooms a client can name through the join / leave events
ClientRooms == {CourseRoom(c) : c \in CourseArgs} \cup {ClubRoom(k) : k \in ClubArgs}

C20_OwnRoomAlwaysKept ==
    /\ [](\A s \in SocketIds :
             Listening(s) => UserRoom(sockets[s].userId) \in rooms[s])
    /\ [][\A s \in SocketIds :
             LET added == rooms'[s] \ rooms[s]
                 removed == rooms[s] \ rooms'[s]
             IN /\ added # {} =>
                      \/ \E c \in CourseArgs : join_course(s, c) /\ added = {CourseRoom(c)}
                      \/ \E k \in ClubArgs : join_club(s, k) /\ added = {ClubRoom(k)}
                      \/ sockets[s].pc = "lookup" /\ sockets'[s].pc = "active"
                /\ removed # {} =>
                      \/ \E c \in CourseArgs : leave_course(s, c) /\ removed = {CourseRoom(c)}
                      \/ \E k \in ClubArgs : leave_club(s, k) /\ removed = {ClubRoom(k)}
                      \/ TransportClose(s) /\ rooms'[s] = {}]_vars

\* a live connection that joined a course room and a club room and still is
\* in its own room
C20_Witness ==
    \E s \in SocketIds :
        /\ Listening(s)
        /\ \E c \in CourseArgs : CourseRoom(c) \in rooms[s]
        /\ \E k \in ClubArgs : ClubRoom(k) \in rooms[s]
        /\ UserRoom(sockets[s].userId) \in rooms[s]

(***************************************************************************)
(* Authentication that does not complete (SpecAuth)                        *)
(***************************************************************************)
\* the promise of await User.findById never settles (the store accepts the
\* query and never answers); the handler stays suspended: it starts no timer
\* and nothing else resumes it
LookupHangs(s) ==
    /\ sockets[s].pc = "lookup"
    /\ sockets' = [sockets EXCEPT ![s].pc = "hung"]
    /\ UNCHANGED <<users, activeUsers, rooms, announced, listeners, lastEmit, lastOp, dbVars>>

\* a connection the server accepted whose handler has neither registered nor
\* rejected it
Connecting(s) == sockets[s].pc \in {"lookup", "hung"} /\ sockets[s].connected

InitAuth ==
    /\ users = DefaultUsers
    /\ InitSockets
    /\ InitDb

NextAuth ==
    \/ \E s \in SocketIds, tok \in Tokens : Connect(s, tok)
    \/ \E s \in SocketIds : LookupHangs(s)
    \/ \E s \in SocketIds, dbOk \in BOOLEAN, joinTakes \in BOOLEAN : FindByIdReturns(s, dbOk, joinTakes)
    \/ \E s \in SocketIds : TransportClose(s)
    \/ \E s \in SocketIds, c \in CourseArgs : join_course(s, c)

\* a lookup that has not hung is answered (resolved or rejected); the client
\* is free to keep its transport open
SpecAuth ==
    /\ InitAuth
    /\ [][NextAuth]_vars
    /\ \A s \in SocketIds :
          WF_vars(\E dbOk \in BOOLEAN, joinTakes \in BOOLEAN : FindByIdReturns(s, dbOk, joinTakes))

\* C21: no connection stays in Connecting forever: a connection whose
\* authentication call does not complete is closed, so every accepted
\* connection eventually is Active or Closed.
C21_ConnectingEventuallySettles ==
    \A s \in SocketIds : Connecting(s) ~> ~Connecting(s)

(***************************************************************************)
(* Unknown audience rules (SpecFanout)                                     *)
(***************************************************************************)
\* C22: an audience rule whose variant is none of All, Faculty, Department,
\* Level, Course fails fast: the request ends with an error, no announcement
\* is stored, no recipient set is resolved and nothing is written for it; no
\* request with such a rule gets past the check into the fan-out.
C22_UnknownRuleFailsFast ==
    /\ (lastOp.op = "announce" /\ lastOp.rule # <<>> /\ lastOp.rule[1] \notin Audiences)
          => /\ lastOp.status >= 400
             /\ ~lastOp.created
             /\ lastOp.recipients = <<>>
             /\ lastOp.writes = 0
    /\ ann.pc = "create" => ann.targetAudience \in Audiences
    /\ \A i \in 1..Len(announcements) : announcements[i].targetAudience \in Audiences

\* a request with an unknown rule for an existing course was answered
C22_Witness ==
    /\ lastOp.op = "announce"
    /\ lastOp.rule # <<>>
    /\ lastOp.rule[1] = "Everyone"
    /\ lastOp.course = "c1"
    /\ lastOp.status = 400
    /\ announcements = <<>>

(***************************************************************************)
(* Notification read flag (SpecRead)                                       *)
(***************************************************************************)
\* readAt of a document that was never read (the path has no default)
NeverRead == 0
\* a notification as the store holds it: the created document with the
\* schema defaults
Stored(doc) ==
    [recipient |-> doc.recipient, sender |-> doc.sender, type |-> doc.type,
     link |-> doc.link, isRead |-> FALSE, readAt |-> NeverRead]

\* Notification.findById(id): index into the collection, 0 for null
Notification_findById(id) == IF id \in DOMAIN notifications THEN id ELSE 0

\* notification.isRead = true; notification.readAt = new Date(); save()
MarkedRead(doc, now) == [doc EXCEPT !.isRead = TRUE, !.readAt = now]

\* GET /api/notifications/:id: the recipient's first read marks the document
GetNotification(caller, id) ==
    /\ served < MaxRequests
    /\ LET n == Notification_findById(id)
           status == IF n = 0 THEN 404
                     ELSE IF notifications[n].recipient # caller THEN 403 ELSE 200
           marks == status = 200 /\ ~notifications[n].isRead
       IN /\ notifications' = IF marks
                              THEN [notifications EXCEPT ![n] = MarkedRead(@, served + 1)]
                              ELSE notifications
          /\ lastOp' = [NoOp EXCEPT !.op = "getNotification", !.path = "notifications/:id",
                          !.from = caller, !.status = status, !.rule = <<id>>,
                          !.writes = IF marks THEN 1 ELSE 0]
    /\ served' = served + 1
    /\ UNCHANGED <<users, pending, store, sockVars, courses, messages, announcements, ann, grade, calc, exams>>

\* variant of MarkRead without the recipient check
MarkRead_anyCaller(caller, id) ==
    /\ served < MaxRequests
    /\ LET n == Notification_findById(id)
           status == IF n = 0 THEN 404 ELSE 200
       IN /\ notifications' = IF status = 200
                              THEN [notifications EXCEPT ![n] = MarkedRead(@, served + 1)]
                              ELSE notifications
          /\ lastOp' = [NoOp EXCEPT !.op = "markRead", !.path = "notifications/:id/read",
                          !.from = caller, !.status = status, !.rule = <<id>>,
                          !.writes = IF status = 200 THEN 1 ELSE 0]
    /\ served' = served + 1
    /\ UNCHANGED <<users, pending, store, sockVars, courses, messages, announcements, ann, grade, calc, exams>>

\* PUT /api/notifications/:id/read
MarkRead(caller, id) ==
    /\ served < MaxRequests
    /\ LET n == Notification_findById(id)
           status == IF n = 0 THEN 404
                     ELSE IF notifications[n].recipient # caller THEN 403 ELSE 200
       IN /\ notifications' = IF status = 200
                              THEN [notifications EXCEPT ![n] = MarkedRead(@, served + 1)]
                              ELSE notifications
          /\ lastOp' = [NoOp EXCEPT !.op = "markRead", !.path = "notifications/:id/read",
                          !.from = caller, !.status = status, !.rule = <<id>>,
                          !.writes = IF status = 200 THEN 1 ELSE 0]
    /\ served' = served + 1
    /\ UNCHANGED <<users, pending, store, sockVars, courses, messages, announcements, ann, grade, calc, exams>>

\* PUT /api/notifications/:id/read of routes/notifications.js:
\* findOne({_id, recipient: req.user.id})
MarkReadOwned(caller, id) ==
    /\ served < MaxRequests
    /\ LET n == IF id \in DOMAIN notifications /\ notifications[id].recipient = caller
                THEN id ELSE 0
           status == IF n = 0 THEN 404 ELSE 200
       IN /\ notifications' = IF status = 200
                              THEN [notifications EXCEPT ![n] = MarkedRead(@, served + 1)]
                              ELSE notifications
          /\ lastOp' = [NoOp EXCEPT !.op = "markRead", !.path = "notifications.js/:id/read",
                          !.from = caller, !.status = status, !.rule = <<id>>,
                          !.writes = IF status = 200 THEN 1 ELSE 0]
    /\ served' = served + 1
    /\ UNCHANGED <<users, pending, store, sockVars, courses, messages, announcements, ann, grade, calc, exams>>

\* Notification.updateMany({recipient, isRead: false}, {isRead: true, readAt})
MarkAllOf(caller, now) ==
    [i \in DOMAIN notifications |->
        IF notifications[i].recipient = caller /\ ~notifications[i].isRead
        THEN MarkedRead(notifications[i], now) ELSE notifications[i]]

\* PUT /api/notifications/mark-all-read
MarkAllRead(caller) ==
    /\ served < MaxRequests
    /\ notifications' = MarkAllOf(caller, served + 1)
    /\ lastOp' = [NoOp EXCEPT !.op = "markAllRead", !.path = "notifications/mark-all-read",
                    !.from = caller, !.status = 200, !.writes = 1]
    /\ served' = served + 1
    /\ UNCHANGED <<users, pending, store, sockVars, courses, messages, announcements, ann, grade, calc, exams>>

\* PUT /api/notifications/read-all of routes/notifications.js
ReadAll(caller) ==
    /\ served < MaxRequests
    /\ notifications' = MarkAllOf(caller, served + 1)
    /\ lastOp' = [NoOp EXCEPT !.op = "markAllRead", !.path = "notifications.js/read-all",
                    !.from = caller, !.status = 200, !.writes = 1]
    /\ served' = served + 1
    /\ UNCHANGED <<users, pending, store, sockVars, courses, messages, announcements, ann, grade, calc, exams>>

\* three stored notifications of two recipients; callers are the recipients
\* and a third user; ids name the stored documents and one that is not there
ReadCallers == {"u1", "u2", "p1"}
ReadIds == 1..4

InitRead ==
    /\ users = DefaultUsers
    /\ InitSockets
    /\ courses = [c \in CourseIds |->
                    [professor |-> "p1", enrolledStudents |-> <<>>,
                     maxStudents |-> DefaultMaxStudents]]
    /\ notifications = <<Stored(newMessage("u1", "u2")),
                         Stored(examReminder("u2")),
                         Stored(examReminder("u1"))>>
    /\ messages = <<>>
    /\ announcements = <<>>
    /\ ann = AnnIdle
    /\ served = 0
    /\ lastOp = NoOp
    /\ grade = NoGrade
    /\ calc = NoCalc
    /\ exams = <<>>
    /\ pending = NoPending
    /\ store = NoStore

NextRead ==
    \/ \E u \in ReadCallers, id \in ReadIds : GetNotification(u, id)
    \/ \E u \in ReadCallers, id \in ReadIds : MarkRead(u, id)
    \/ \E u \in ReadCallers, id \in ReadIds : MarkReadOwned(u, id)
    \/ \E u \in ReadCallers : MarkAllRead(u)
    \/ \E u \in ReadCallers : ReadAll(u)

SpecRead == InitRead /\ [][NextRead]_vars

\* C23: the read flag of a notification is changed only by its recipient: a
\* request naming a record of another identity is rejected (403 or 404) and
\* leaves every record as it was, and any record that changes in a step
\* (isRead, readAt) belongs to the caller of that request.
C23_ReadFlagOnlyByRecipient ==
    [][/\ \A i \in DOMAIN notifications :
             notifications'[i] # notifications[i]
                => /\ lastOp'.from = notifications[i].recipient
                   /\ lastOp'.status = 200
       /\ (/\ lastOp'.op \in {"getNotification", "markRead"}
           /\ lastOp'.rule[1] \in DOMAIN notifications
           /\ notifications[lastOp'.rule[1]].recipient # lastOp'.from)
             => /\ lastOp'.status \in {403, 404}
                /\ notifications' = notifications]_vars

\* a record was read by its recipient and a later mark-read of it by another
\* identity was rejected
C23_Witness ==
    /\ lastOp.op = "markRead"
    /\ lastOp.status = 403
    /\ lastOp.rule[1] \in DOMAIN notifications
    /\ notifications[lastOp.rule[1]].recipient # lastOp.from
    /\ \E i \in DOMAIN notifications : notifications[i].isRead

(***************************************************************************)
(* Personal rooms (SpecRooms)                                              *)
(***************************************************************************)
\* io.to(`student_${student}`).emit('attendance_marked', attendance) of
\* POST /api/attendance
attendance_marked(student) ==
    /\ lastEmit' = [event |-> "attendance_marked", by |-> NoSocket,
                    room |-> StudentRoom(student), userId |-> student,
                    reached |-> InRoom(StudentRoom(student))]
    /\ UNCHANGED <<users, sockets, activeUsers, rooms, announced, listeners, lastOp, dbVars>>

\* clients that name other identities where a course or club id is expected
RoomTokens == {"u1", "p1"}
HostileArgs == {"u1"}

InitRooms ==
    /\ users = DefaultUsers
    /\ InitSockets
    /\ InitDb

NextRooms ==
    \/ \E s \in SocketIds, tok \in RoomTokens : Connect(s, tok)
    \/ \E s \in SocketIds, dbOk \in BOOLEAN, joinTakes \in BOOLEAN : FindByIdReturns(s, dbOk, joinTakes)
    \/ \E s \in SocketIds : TransportClose(s)
    \/ \E s \in SocketIds, c \in HostileArgs : join_course(s, c)
    \/ \E s \in SocketIds, c \in HostileArgs : leave_course(s, c)
    \/ \E s \in SocketIds, k \in HostileArgs : join_club(s, k)
    \/ \E s \in SocketIds, k \in HostileArgs : leave_club(s, k)
    \/ \E s \in SocketIds, r \in RoomTokens : send_message(s, r)
    \/ \E u \in RoomTokens : emitToUser(u)
    \/ \E u \in RoomTokens : attendance_marked(u)

SpecRooms == InitRooms /\ [][NextRooms]_vars

PersonalRooms(u) == {UserRoom(u), StudentRoom(u)}

\* C24: every connection in room user_<X> or student_<X> authenticated as X,
\* whatever clients send in join / leave events, and an event emitted to a
\* personal room of X reaches only connections authenticated as X.
C24_PersonalRoomsHoldOnlyOwner ==
    /\ \A s \in SocketIds, u \in UserIds :
          rooms[s] \cap PersonalRooms(u) # {}
             => sockets[s].userId = u /\ sockets[s].token = u
    /\ \A u \in UserIds :
          (lastEmit.event # "none" /\ lastEmit.room \in PersonalRooms(u))
             => \A s \in lastEmit.reached : sockets[s].userId = u

\* a connection of p1 asked to join course and club rooms named after u1, is
\* in them, and an event for u1's personal room was emitted while u1 is
\* connected
C24_Witness ==
    \E s, t \in SocketIds :
        /\ sockets[s].userId = "p1"
        /\ {CourseRoom("u1"), ClubRoom("u1")} \subseteq rooms[s]
        /\ sockets[t].userId = "u1"
        /\ UserRoom("u1") \in rooms[t]
        /\ lastEmit.event = "attendance_marked"
        /\ lastEmit.room = StudentRoom("u1")
        /\ lastEmit.reached = {t}

(***************************************************************************)
(* Sender identity of relayed events (SpecSocket)                          *)
(***************************************************************************)
\* C25: in every event the gateway relays for a client ('receive_message',
\* 'user_typing') the sender identity of the payload (senderId / userId) is
\* the identity the sending connection authenticated as (the directory record
\* of its verified token); the client's data picks the room only.
C25_RelayedSenderIsAuthenticated ==
    lastEmit.event \in {"receive_message", "user_typing"}
       => /\ lastEmit.by \in listeners
          /\ lastEmit.userId = sockets[lastEmit.by].token
          /\ lastEmit.userId \in DOMAIN users
          /\ lastEmit.room \in {UserRoom(r) : r \in Receivers}

\* u1 sent a message and a typing event to p1: the receiver is the one the
\* client chose, the sender is u1
C25_Witness ==
    /\ lastEmit.event \in {"receive_message", "user_typing"}
    /\ lastEmit.room = UserRoom("p1")
    /\ lastEmit.userId = "u1"
    /\ sockets[lastEmit.by].token = "u1"
    /\ \E s \in SocketIds : s # lastEmit.by /\ sockets[s].userId = "p1"

(***************************************************************************)
(* io.emitToUser with several connections of one identity (SpecEmit)       *)
(***************************************************************************)
\* a call of io.emitToUser(userId, event, data) by server code, both branches:
\* the emit to the user room when activeUsers has the key, nothing otherwise
EmitToUserCall(u) ==
    /\ IF activeUsers[u] # NoSocket
       THEN lastEmit' = [event |-> "emitToUser", by |-> NoSocket, room |-> UserRoom(u),
                         userId |-> u, reached |-> InRoom(UserRoom(u))]
       ELSE UNCHANGED lastEmit
    /\ lastOp' = [NoOp EXCEPT !.op = "emitToUser", !.to = u,
                    !.live = IF activeUsers[u] # NoSocket THEN {UserRoom(u)} ELSE {},
                    !.online = OnlineNow]
    /\ UNCHANGED <<users, sockets, activeUsers, rooms, announced, listeners, dbVars>>

EmitTokens == {"u1", "p1"}

InitEmit ==
    /\ users = DefaultUsers
    /\ InitSockets
    /\ InitDb

NextEmit ==
    \/ \E s \in SocketIds, tok \in EmitTokens : Connect(s, tok)
    \/ \E s \in SocketIds, dbOk \in BOOLEAN, joinTakes \in BOOLEAN : FindByIdReturns(s, dbOk, joinTakes)
    \/ \E s \in SocketIds : TransportClose(s)
    \/ \E u \in EmitTokens : EmitToUserCall(u)

SpecEmit == InitEmit /\ [][NextEmit]_vars

\* C26: a call of emitToUser for an identity that has a live authenticated
\* connection emits the event and reaches every live connection of the
\* identity; the event is dropped only when the identity has none.
C26_EmitToUserReachesEveryLiveConnection ==
    [][(lastOp'.op = "emitToUser" /\ UNCHANGED sockets /\ LiveConnections(lastOp'.to) # {})
          => /\ lastOp'.live = {UserRoom(lastOp'.to)}
             /\ lastEmit'.event = "emitToUser"
             /\ lastEmit'.userId = lastOp'.to
             /\ LiveConnections(lastOp'.to) \subseteq lastEmit'.reached]_vars

(***************************************************************************)
(* Publishing an exam by concurrent updates (SpecExams)                    *)
(***************************************************************************)
\* PUT /api/exams/:id up to findByIdAndUpdate: the exam is read, the
\* professor's course is checked, wasPublished is taken from the document
\* read.  body is "publish" (isPublished: true) or "room" (another field)
UpdateExamRead(r, author, e, body) ==
    /\ pending[r] = Idle
    /\ served < MaxRequests
    /\ LET found == e \in DOMAIN exams
           courseData == IF found THEN Course_findById(exams[e].course) ELSE NullCourse
           professor == users[author].role = "professor"
           status == IF ~found THEN 404
                     ELSE IF ~professor THEN 0
                     ELSE IF courseData = NullCourse THEN 500
                     ELSE IF courseData.professor # author THEN 403 ELSE 0
       IN IF status # 0
          THEN /\ lastOp' = [NoOp EXCEPT !.op = "exam", !.path = "exams/:id",
                                         !.from = author, !.status = status]
               /\ served' = served + 1
               /\ UNCHANGED pending
          ELSE /\ pending' = [pending EXCEPT ![r] =
                                 [pc |-> "update", op |-> "exam", author |-> author,
                                  exam |-> e, body |-> body,
                                  wasPublished |-> exams[e].isPublished]]
               /\ UNCHANGED <<lastOp, served>>
    /\ UNCHANGED <<users, store, sockVars, courses, notifications, messages, announcements,
                   ann, grade, calc, exams>>

\* the rest of PUT /api/exams/:id: findByIdAndUpdate, then one reminder per
\* user found for the course's enrolledStudents if !wasPublished and the
\* updated document is published (the store accepts every reminder)
UpdateExamWrite(r) ==
    /\ pending[r].pc = "update"
    /\ pending[r].op = "exam"
    /\ LET e == pending[r].exam
           updated == IF pending[r].body = "publish"
                      THEN [exams[e] EXCEPT !.isPublished = TRUE] ELSE exams[e]
           courseData == Course_findById(updated.course)
           newly == ~pending[r].wasPublished /\ updated.isPublished
           status == IF newly /\ courseData = NullCourse THEN 500 ELSE 200
           students == IF status = 200 /\ newly
                       THEN User_find(Range(courseData.enrolledStudents)) ELSE <<>>
           docs == ExamReminders(students)
       IN /\ exams' = [exams EXCEPT ![e] = updated]
          /\ notifications' = notifications \o docs
          /\ lastOp' = [NoOp EXCEPT !.op = "exam", !.path = "exams/:id",
                          !.from = pending[r].author, !.status = status,
                          !.course = updated.course, !.recipients = students,
                          !.writes = Len(docs), !.docs = docs, !.persisted = docs]
    /\ pending' = [pending EXCEPT ![r] = Idle]
    /\ served' = served + 1
    /\ UNCHANGED <<users, store, sockVars, courses, messages, announcements, ann, grade, calc>>

\* a course with two students; exams are created published or not, and
\* updated by requests that overlap
ExamRoster == <<"u1", "u2">>
ExamAuthors == {"p1", "a1"}

InitExams ==
    /\ users = DefaultUsers
    /\ InitSockets
    /\ courses = [c \in CourseIds |->
                    [professor |-> "p1", enrolledStudents |-> ExamRoster,
                     maxStudents |-> DefaultMaxStudents]]
    /\ notifications = <<>>
    /\ messages = <<>>
    /\ announcements = <<>>
    /\ ann = AnnIdle
    /\ served = 0
    /\ lastOp = NoOp
    /\ grade = NoGrade
    /\ calc = NoCalc
    /\ \E pub \in BOOLEAN : exams = <<[course |-> "c1", isPublished |-> pub]>>
    /\ pending = NoPending
    /\ store = NoStore

NextExams ==
    \/ \E a \in ExamAuthors, pub \in BOOLEAN : CreateExam(a, "c1", pub, Range(ExamRoster))
    \/ \E r \in Slots, a \in ExamAuthors, e \in 1..2, body \in {"publish", "room"} :
          UpdateExamRead(r, a, e, body)
    \/ \E r \in Slots : UpdateExamWrite(r)

SpecExams == InitExams /\ [][NextExams]_vars

\* exams that a step takes from unpublished (or not there) to published
PublishedBy(before, after) ==
    {e \in DOMAIN after :
        after[e].isPublished /\ (e \in DOMAIN before => ~before[e].isPublished)}

\* C27: a step creates exam_reminder records exactly when it takes an exam
\* from unpublished to published, and then one per enrolled student: an update
\* of an exam that is already published creates none, also when two update
\* requests that both publish the exam overlap.
C27_OneReminderPerPublication ==
    [][LET added == SubSeq(notifications', Len(notifications) + 1, Len(notifications'))
           transitions == PublishedBy(exams, exams')
       IN \A u \in Students :
             Cardinality({i \in DOMAIN added :
                             added[i].type = "exam_reminder" /\ added[i].recipient = u})
               = IF transitions # {} /\ u \in Range(ExamRoster) THEN 1 ELSE 0]_vars

(***************************************************************************)
(* Grade records per (student, course, semester, academicYear) (SpecPost)  *)
(***************************************************************************)
\* Grade.findOne({student, course, semester, academicYear}): position of the
\* first matching document, 0 for null
GradeKey(doc) == <<doc.student, doc.course, doc.semester, doc.academicYear>>
Grade_findOne(key) ==
    LET hits == {i \in DOMAIN store.grades : GradeKey(store.grades[i]) = key}
    IN IF hits = {} THEN 0 ELSE CHOOSE i \in hits : \A j \in hits : i <= j

\* POST /api/grades up to the answer of Grade.findOne
PostGradeFind(r, author, key, assessments) ==
    /\ pending[r] = Idle
    /\ served < MaxRequests
    /\ LET course == Course_findById(key[2])
           status == IF users[author].role = "professor" /\
                        (course = NullCourse \/ course.professor # author)
                     THEN 403 ELSE 0
       IN IF status # 0
          THEN /\ lastOp' = [NoOp EXCEPT !.op = "postGrade", !.path = "grades",
                                         !.from = author, !.status = status]
               /\ served' = served + 1
               /\ UNCHANGED pending
          ELSE /\ pending' = [pending EXCEPT ![r] =
                                 [pc |-> "save", op |-> "postGrade", author |-> author,
                                  key |-> key, assessments |-> assessments,
                                  grade |-> Grade_findOne(key)]]
               /\ UNCHANGED <<lastOp, served>>
    /\ UNCHANGED <<users, store, sockVars, courses, notifications, messages, announcements,
                   ann, grade, calc, exams>>

\* the rest of POST /api/grades: grade.save() of the document found, or
\* Grade.create of a new one (the inputs have no rounding ties)
PostGradeSave(r) ==
    /\ pending[r].pc = "save"
    /\ pending[r].op = "postGrade"
    /\ LET key == pending[r].key
           g == pending[r].grade
           doc == IF g # 0
                  THEN [store.grades[g] EXCEPT !.assessments = pending[r].assessments]
                  ELSE [student |-> key[1], course |-> key[2], semester |-> key[3],
                        academicYear |-> key[4], assessments |-> pending[r].assessments,
                        finalGrade |-> Undefined, status |-> "Pending"]
           saved == preSave(doc, FALSE)
       IN /\ store' = [store EXCEPT !.grades = IF g # 0 THEN [@ EXCEPT ![g] = saved]
                                                ELSE Append(@, saved)]
          /\ lastOp' = [NoOp EXCEPT !.op = "postGrade", !.path = "grades",
                          !.from = pending[r].author, !.status = 201,
                          !.created = (g = 0)]
    /\ pending' = [pending EXCEPT ![r] = Idle]
    /\ served' = served + 1
    /\ UNCHANGED <<users, sockVars, courses, notifications, messages, announcements,
                   ann, grade, calc, exams>>

PostKeys == {<<"u1", "c1", "S1", "2024">>, <<"u2", "c1", "S1", "2024">>}
PostLists == {<<>>, <<[score |-> 14, maxScore |-> 20, weight |-> 30]>>,
              <<[score |-> 8, maxScore |-> 20, weight |-> 70]>>}
PostAuthors == {"p1", "p2", "a1"}

InitPost ==
    /\ users = DefaultUsers
    /\ InitSockets
    /\ InitDb

NextPost ==
    \/ \E r \in Slots, a \in PostAuthors, key \in PostKeys, as \in PostLists :
          PostGradeFind(r, a, key, as)
    \/ \E r \in Slots : PostGradeSave(r)

SpecPost == InitPost /\ [][NextPost]_vars

\* C28: there is at most one Grade record per (student, course, semester,
\* academicYear), whatever POST /api/grades requests ran, overlapping ones
\* included: a request for a combination that has a record updates it.
C28_OneGradePerCombination ==
    \A i, j \in DOMAIN store.grades :
        GradeKey(store.grades[i]) = GradeKey(store.grades[j]) => i = j

(***************************************************************************)
(* Attendance records per session (SpecAttendance)                         *)
(***************************************************************************)
\* Attendance.findOne({student, course, date, sessionType}): position of the
\* first matching document, 0 for null
AttendanceKey(doc) == <<doc.student, doc.course, doc.date, doc.sessionType>>
Attendance_findOne(key) ==
    LET hits == {i \in DOMAIN store.attendance : AttendanceKey(store.attendance[i]) = key}
    IN IF hits = {} THEN 0 ELSE CHOOSE i \in hits : \A j \in hits : i <= j

\* POST /api/attendance up to the answer of Attendance.findOne
CreateAttendanceCheck(r, author, key, status) ==
    /\ pending[r] = Idle
    /\ served < MaxRequests
    /\ LET courseData == Course_findById(key[2])
           code == IF courseData = NullCourse THEN 404
                   ELSE IF users[author].role = "professor" /\ courseData.professor # author
                   THEN 403
                   ELSE IF Attendance_findOne(key) # 0 THEN 400 ELSE 0
       IN IF code # 0
          THEN /\ lastOp' = [NoOp EXCEPT !.op = "attendance", !.path = "attendance",
                                         !.from = author, !.to = key[1], !.status = code]
               /\ served' = served + 1
               /\ UNCHANGED pending
          ELSE /\ pending' = [pending EXCEPT ![r] =
                                 [pc |-> "create", op |-> "attendance", author |-> author,
                                  key |-> key, status |-> status]]
               /\ UNCHANGED <<lastOp, served>>
    /\ UNCHANGED <<users, store, sockVars, courses, notifications, messages, announcements,
                   ann, grade, calc, exams>>

\* the rest of POST /api/attendance: Attendance.create, 201
CreateAttendance(r) ==
    /\ pending[r].pc = "create"
    /\ pending[r].op = "attendance"
    /\ LET key == pending[r].key
           doc == [student |-> key[1], course |-> key[2], date |-> key[3],
                   sessionType |-> key[4], status |-> pending[r].status,
                   recordedBy |-> pending[r].author]
       IN /\ store' = [store EXCEPT !.attendance = Append(@, doc)]
          /\ lastOp' = [NoOp EXCEPT !.op = "attendance", !.path = "attendance",
                          !.from = pending[r].author, !.to = key[1], !.status = 201,
                          !.created = TRUE]
    /\ pending' = [pending EXCEPT ![r] = Idle]
    /\ served' = served + 1
    /\ UNCHANGED <<users, sockVars, courses, notifications, messages, announcements,
                   ann, grade, calc, exams>>

\* POST /api/attendance/bulk: one record per entry of students, insertMany
BulkAttendance(author, course, date, sessionType, students) ==
    /\ served < MaxRequests
    /\ LET courseData == Course_findById(course)
           code == IF courseData = NullCourse THEN 404
                   ELSE IF users[author].role = "professor" /\ courseData.professor # author
                   THEN 403 ELSE 201
           attendanceRecords ==
               [i \in 1..Len(students) |->
                   [student |-> students[i], course |-> course, date |-> date,
                    sessionType |-> sessionType, status |-> "Present",
                    recordedBy |-> author]]
       IN /\ store' = [store EXCEPT !.attendance =
                          IF code = 201 THEN @ \o attendanceRecords ELSE @]
          /\ lastOp' = [NoOp EXCEPT !.op = "attendance", !.path = "attendance/bulk",
                          !.from = author, !.status = code,
                          !.created = (code = 201)]
    /\ served' = served + 1
    /\ UNCHANGED <<users, pending, sockVars, courses, notifications, messages, announcements,
                   ann, grade, calc, exams>>

\* two sessions of one day, two students; a bulk body names each student once
SessionTypes == {"Lecture", "TD"}
AttendanceKeys == {<<s, "c1", "d1", t>> : s \in {"u1", "u2"}, t \in SessionTypes}
BulkLists == {<<"u1">>, <<"u1", "u2">>}
AttendanceAuthors == {"p1", "p2"}

InitAttendance ==
    /\ users = DefaultUsers
    /\ InitSockets
    /\ InitDb

NextAttendance ==
    \/ \E r \in Slots, a \in AttendanceAuthors, key \in AttendanceKeys,
          st \in {"Present", "Absent"} : CreateAttendanceCheck(r, a, key, st)
    \/ \E r \in Slots : CreateAttendance(r)
    \/ \E a \in AttendanceAuthors, t \in SessionTypes, l \in BulkLists :
          BulkAttendance(a, "c1", "d1", t, l)

SpecAttendance == InitAttendance /\ [][NextAttendance]_vars

\* C29: there is at most one Attendance record per (student, course, date,
\* sessionType) after any single and bulk creations, overlapping ones included:
\* a second recording of a recorded session stores nothing.
C29_OneAttendancePerSession ==
    \A k \in AttendanceKeys :
        Cardinality({i \in DOMAIN store.attendance :
                        AttendanceKey(store.attendance[i]) = k}) <= 1

(***************************************************************************)
(* Enrolment (SpecEnroll)                                                  *)
(* Course documents carry version, the document's __v: course.save() after *)
(* enrolledStudents.push sends $push and increments it; after assigning a  *)
(* new array it sends the array with a check of the version read.          *)
(***************************************************************************)
\* POST /api/courses/:id/enroll up to course.save()
EnrollRead(r, student, c) ==
    /\ pending[r] = Idle
    /\ served < MaxRequests
    /\ LET course == Course_findById(c)
           status == IF course = NullCourse THEN 404
                     ELSE IF student \in Range(course.enrolledStudents) THEN 400
                     ELSE IF Len(course.enrolledStudents) >= course.maxStudents THEN 400
                     ELSE 0
       IN IF status # 0
          THEN /\ lastOp' = [NoOp EXCEPT !.op = "enroll", !.path = "courses/:id/enroll",
                                         !.from = student, !.course = c, !.status = status]
               /\ served' = served + 1
               /\ UNCHANGED pending
          ELSE /\ pending' = [pending EXCEPT ![r] =
                                 [pc |-> "save", op |-> "enroll", student |-> student,
                                  course |-> c]]
               /\ UNCHANGED <<lastOp, served>>
    /\ UNCHANGED <<users, store, sockVars, courses, notifications, messages, announcements,
                   ann, grade, calc, exams>>

\* the rest of the enroll handler: course.save() ($push of the student),
\* User.findByIdAndUpdate($push enrolledCourses), 200
EnrollSave(r) ==
    /\ pending[r].pc = "save"
    /\ pending[r].op = "enroll"
    /\ LET c == pending[r].course
           student == pending[r].student
       IN /\ courses' = [courses EXCEPT ![c].enrolledStudents = Append(@, student),
                                        ![c].version = @ + 1]
          /\ store' = [store EXCEPT !.enrolledCourses[student] = Append(@, c)]
          /\ lastOp' = [NoOp EXCEPT !.op = "enroll", !.path = "courses/:id/enroll",
                          !.from = student, !.course = c, !.status = 200,
                          !.roster = courses[c].enrolledStudents]
    /\ pending' = [pending EXCEPT ![r] = Idle]
    /\ served' = served + 1
    /\ UNCHANGED <<users, sockVars, notifications, messages, announcements,
                   ann, grade, calc, exams>>

\* DELETE /api/courses/:id/enroll up to course.save(): the filtered roster
UnenrollRead(r, student, c) ==
    /\ pending[r] = Idle
    /\ served < MaxRequests
    /\ LET course == Course_findById(c)
       IN IF course = NullCourse
          THEN /\ lastOp' = [NoOp EXCEPT !.op = "unenroll", !.path = "courses/:id/enroll",
                                         !.from = student, !.course = c, !.status = 404]
               /\ served' = served + 1
               /\ UNCHANGED pending
          ELSE /\ pending' = [pending EXCEPT ![r] =
                                 [pc |-> "save", op |-> "unenroll", student |-> student,
                                  course |-> c, version |-> course.version,
                                  read |-> course.enrolledStudents,
                                  roster |-> SelectSeq(course.enrolledStudents,
                                                       LAMBDA u : u # student)]]
               /\ UNCHANGED <<lastOp, served>>
    /\ UNCHANGED <<users, store, sockVars, courses, notifications, messages, announcements,
                   ann, grade, calc, exams>>

\* the rest of the unenroll handler: course.save() (nothing to write if the
\* roster is as read; VersionError if the document changed since the read),
\* User.findByIdAndUpdate($pull enrolledCourses), 200
UnenrollSave(r) ==
    /\ pending[r].pc = "save"
    /\ pending[r].op = "unenroll"
    /\ LET c == pending[r].course
           student == pending[r].student
           writes == pending[r].roster # pending[r].read
           conflict == writes /\ courses[c].version # pending[r].version
       IN /\ courses' = IF writes /\ ~conflict
                        THEN [courses EXCEPT ![c].enrolledStudents = pending[r].roster,
                                             ![c].version = @ + 1]
                        ELSE courses
          /\ store' = IF conflict THEN store
                      ELSE [store EXCEPT !.enrolledCourses[student] =
                                             SelectSeq(@, LAMBDA d : d # c)]
          /\ lastOp' = [NoOp EXCEPT !.op = "unenroll", !.path = "courses/:id/enroll",
                          !.from = student, !.course = c,
                          !.status = IF conflict THEN 500 ELSE 200,
                          !.roster = courses[c].enrolledStudents]
    /\ pending' = [pending EXCEPT ![r] = Idle]
    /\ served' = served + 1
    /\ UNCHANGED <<users, sockVars, notifications, messages, announcements,
                   ann, grade, calc, exams>>

\* a course with room for one student
EnrollCapacity == 1
EnrollStudents == {"u1", "u2"}

InitEnroll ==
    /\ users = DefaultUsers
    /\ InitSockets
    /\ courses = [c \in CourseIds |->
                    [professor |-> "p1", enrolledStudents |-> <<>>,
                     maxStudents |-> EnrollCapacity, version |-> 0]]
    /\ notifications = <<>>
    /\ messages = <<>>
    /\ announcements = <<>>
    /\ ann = AnnIdle
    /\ served = 0
    /\ lastOp = NoOp
    /\ grade = NoGrade
    /\ calc = NoCalc
    /\ exams = <<>>
    /\ pending = NoPending
    /\ store = NoStore

NextEnroll ==
    \/ \E r \in Slots, u \in EnrollStudents, c \in CourseIds \cup {MissingCourse} :
          EnrollRead(r, u, c)
    \/ \E r \in Slots : EnrollSave(r)
    \/ \E r \in Slots, u \in EnrollStudents, c \in CourseIds \cup {MissingCourse} :
          UnenrollRead(r, u, c)
    \/ \E r \in Slots : UnenrollSave(r)

SpecEnroll == InitEnroll /\ [][NextEnroll]_vars

\* C30: whatever enroll and unenroll requests ran, overlapping ones included,
\* no course holds more students than its maxStudents and no student is in a
\* roster twice.
C30_RosterWithinCapacityNoDuplicates ==
    \A c \in DOMAIN courses :
        /\ Len(courses[c].enrolledStudents) <= courses[c].maxStudents
        /\ \A i, j \in DOMAIN courses[c].enrolledStudents :
              courses[c].enrolledStudents[i] = courses[c].enrolledStudents[j] => i = j

====
